---- MODULE Spec2Model ----
(***************************************************************************)
(* Breakdown / project rollup core of ppdo-staging:                        *)
(*   - convex/govtProjects.ts        child mutations and their cascade     *)
(*   - convex/lib/projectAggregation recalculateProjectMetrics             *)
(*   - convex/lib/aggregationUtils   calculateAggregation                  *)
(*   - convex/lib/*ActivityLogger    diff based activity loggers           *)
(* The record store (ctx.db) offers get/insert/patch/delete; the code has  *)
(* no rollback of its own, so the model shows the writes a handler issued  *)
(* before it threw. What the mutation runtime of the platform does with    *)
(* them after the throw is not part of these sources.                      *)
(***************************************************************************)
EXTENDS Integers, Sequences, FiniteSets, TLC

VARIABLES breakdowns, projects, lastOp,
          aggregations, lastAgg,
          lastLog

vars == <<breakdowns, projects, lastOp, aggregations, lastAgg, lastLog>>

(* ------------------------------ bounds -------------------------------- *)
MaxBreakdowns == 2
MaxBatch == 2

(* ----------------------------- domains -------------------------------- *)
NoUser == "none"
Users == {"U1", "U2"}
NoProject == "none"
ExistingProjects == {"P1", "P2"}
ProjectIds == ExistingProjects \cup {"P3"}
NoStatus == "none"
statusValidator == {"completed", "delayed", "ongoing"}
Absent == "none"

SeqsUpTo(S, n) == UNION {[1..k -> S] : k \in 0..n}

Elems(sq) == {sq[i] : i \in 1..Len(sq)}
NoDup(sq) == \A i, j \in 1..Len(sq) : sq[i] = sq[j] => i = j

RECURSIVE SeqSum(_)
SeqSum(s) == IF s = <<>> THEN 0 ELSE Head(s) + SeqSum(Tail(s))

(* mutant: an array push in place of Set.add *)
SetAdd_Push(s, x) == Append(s, x)

(* JS Set.add on an insertion ordered set *)
SetAdd(s, x) == IF \E i \in 1..Len(s) : s[i] = x THEN s ELSE Append(s, x)

(* ---------------- convex/lib/projectAggregation.ts -------------------- *)

(* ctx.db.query("govtProjectBreakdowns").withIndex("projectId", eq).collect() *)
ChildrenOf(b, projectId) ==
  SelectSeq(b, LAMBDA r : r.alive /\ r.projectId = projectId)

(* mutant: every status that is not completed or delayed counts as on track *)
CountStep_ElseOnTrack(acc, status) ==
  IF status = "completed" THEN [acc EXCEPT !.completed = @ + 1]
  ELSE IF status = "delayed" THEN [acc EXCEPT !.delayed = @ + 1]
  ELSE [acc EXCEPT !.onTrack = @ + 1]

(* mutant: the statuses are compared without regard to case and hyphen *)
CountStep_IgnoreCase(acc, status) ==
  IF status \in {"completed", "Completed"} THEN [acc EXCEPT !.completed = @ + 1]
  ELSE IF status \in {"delayed", "Delayed"} THEN [acc EXCEPT !.delayed = @ + 1]
  ELSE IF status \in {"ongoing", "On-Going"} THEN [acc EXCEPT !.onTrack = @ + 1]
  ELSE acc

(* the reduce callback: one bucket per recognised status, else untouched *)
CountStep(acc, status) ==
  IF status = "completed" THEN [acc EXCEPT !.completed = @ + 1]
  ELSE IF status = "delayed" THEN [acc EXCEPT !.delayed = @ + 1]
  ELSE IF status = "ongoing" THEN [acc EXCEPT !.onTrack = @ + 1]
  ELSE acc

RECURSIVE Reduce(_, _)
Reduce(kids, acc) ==
  IF kids = <<>> THEN acc
  ELSE Reduce(Tail(kids), CountStep(acc, Head(kids).status))

(* what Date.now() returns at a patch; the parents start at time 0 *)
PatchTime == 1

(* mutant: the document is replaced by the five fields of the patch *)
PatchCounters_Replace(p, projectId, c, userId) ==
  [p EXCEPT ![projectId] = [projectCompleted |-> c.completed,
                            projectDelayed |-> c.delayed,
                            projectsOnTrack |-> c.onTrack,
                            updatedAt |-> PatchTime,
                            updatedBy |-> userId]]

(* ctx.db.patch(projectId, {...}) of the three counters and the audit fields *)
PatchCounters(p, projectId, c, userId) ==
  [p EXCEPT ![projectId] = [@ EXCEPT !.projectCompleted = c.completed,
                                     !.projectDelayed = c.delayed,
                                     !.projectsOnTrack = c.onTrack,
                                     !.updatedAt = PatchTime,
                                     !.updatedBy = userId]]

ZeroCounts == [completed |-> 0, delayed |-> 0, onTrack |-> 0]
NoRet == [breakdownsCount |-> 0, completed |-> 0, delayed |-> 0, onTrack |-> 0]

(* mutant: the counts are added to the counters the parent already holds *)
recalculateProjectMetrics_Incremental(b, p, projectId, userId) ==
  LET kids == ChildrenOf(b, projectId)
      start == IF projectId \in DOMAIN p
               THEN [completed |-> p[projectId].projectCompleted,
                     delayed |-> p[projectId].projectDelayed,
                     onTrack |-> p[projectId].projectsOnTrack]
               ELSE ZeroCounts
      aggregated == IF Len(kids) = 0 THEN ZeroCounts ELSE Reduce(kids, start)
  IN IF projectId \notin DOMAIN p
     THEN [ok |-> FALSE, p |-> p, ret |-> NoRet]
     ELSE [ok |-> TRUE,
           p |-> PatchCounters(p, projectId, aggregated, userId),
           ret |-> [breakdownsCount |-> Len(kids),
                    completed |-> aggregated.completed,
                    delayed |-> aggregated.delayed,
                    onTrack |-> aggregated.onTrack]]

(* mutant: a parent without children is left as it is *)
recalculateProjectMetrics_SkipEmpty(b, p, projectId, userId) ==
  LET kids == ChildrenOf(b, projectId)
      aggregated == Reduce(kids, ZeroCounts)
  IN IF projectId \notin DOMAIN p
     THEN [ok |-> FALSE, p |-> p, ret |-> NoRet]
     ELSE [ok |-> TRUE,
           p |-> IF Len(kids) = 0 THEN p
                 ELSE PatchCounters(p, projectId, aggregated, userId),
           ret |-> [breakdownsCount |-> Len(kids),
                    completed |-> aggregated.completed,
                    delayed |-> aggregated.delayed,
                    onTrack |-> aggregated.onTrack]]

(* mutant: a parent whose counters are right already is not patched *)
recalculateProjectMetrics_SkipUnchanged(b, p, projectId, userId) ==
  LET kids == ChildrenOf(b, projectId)
      aggregated == IF Len(kids) = 0 THEN ZeroCounts ELSE Reduce(kids, ZeroCounts)
      same == /\ projectId \in DOMAIN p
              /\ p[projectId].projectCompleted = aggregated.completed
              /\ p[projectId].projectDelayed = aggregated.delayed
              /\ p[projectId].projectsOnTrack = aggregated.onTrack
  IN IF projectId \notin DOMAIN p
     THEN [ok |-> FALSE, p |-> p, ret |-> NoRet, patches |-> 0]
     ELSE [ok |-> TRUE,
           p |-> IF same THEN p
                 ELSE PatchCounters(p, projectId, aggregated, userId),
           patches |-> IF same THEN 0 ELSE 1,
           ret |-> [breakdownsCount |-> Len(kids),
                    completed |-> aggregated.completed,
                    delayed |-> aggregated.delayed,
                    onTrack |-> aggregated.onTrack]]

(* result: ok = FALSE when ctx.db.patch throws (no such parent document);  *)
(* patches = the ctx.db.patch calls that went through                      *)
recalculateProjectMetrics(b, p, projectId, userId) ==
  LET kids == ChildrenOf(b, projectId)
      aggregated == IF Len(kids) = 0 THEN ZeroCounts ELSE Reduce(kids, ZeroCounts)
  IN IF projectId \notin DOMAIN p
     THEN [ok |-> FALSE, p |-> p, ret |-> NoRet, patches |-> 0]
     ELSE [ok |-> TRUE,
           p |-> PatchCounters(p, projectId, aggregated, userId),
           patches |-> 1,
           ret |-> [breakdownsCount |-> Len(kids),
                    completed |-> aggregated.completed,
                    delayed |-> aggregated.delayed,
                    onTrack |-> aggregated.onTrack]]

(* "for (const projectId of <Set>) await recalculateProjectMetrics(...)":  *)
(* sequential, in insertion order, the first throw ends the loop           *)
RECURSIVE RecalcEach(_, _, _, _)
RecalcEach(b, p, ids, userId) ==
  IF ids = <<>> THEN [ok |-> TRUE, p |-> p, calls |-> <<>>]
  ELSE LET r == recalculateProjectMetrics(b, p, Head(ids), userId)
       IN IF ~r.ok THEN [ok |-> FALSE, p |-> p, calls |-> <<Head(ids)>>]
          ELSE LET rest == RecalcEach(b, r.p, Tail(ids), userId)
               IN [ok |-> rest.ok, p |-> rest.p,
                   calls |-> <<Head(ids)>> \o rest.calls]

(* results.push({ projectId, ...result }) *)
WithProjectId(projectId, ret) ==
  [projectId |-> projectId, breakdownsCount |-> ret.breakdownsCount,
   completed |-> ret.completed, delayed |-> ret.delayed,
   onTrack |-> ret.onTrack]

(* the loop of recalculateMultipleProjects: a throw of one call leaves the *)
(* loop and the function, and the results gathered so far are not returned *)
RECURSIVE RecalcMultipleLoop(_, _, _, _, _)
RecalcMultipleLoop(b, p, projectIds, userId, results) ==
  IF projectIds = <<>>
  THEN [ok |-> TRUE, p |-> p, results |-> results, calls |-> <<>>]
  ELSE LET projectId == Head(projectIds)
           result == recalculateProjectMetrics(b, p, projectId, userId)
       IN IF ~result.ok
          THEN [ok |-> FALSE, p |-> p, results |-> <<>>, calls |-> <<projectId>>]
          ELSE LET rest == RecalcMultipleLoop(b, result.p, Tail(projectIds), userId,
                              Append(results, WithProjectId(projectId, result.ret)))
               IN [ok |-> rest.ok, p |-> rest.p, results |-> rest.results,
                   calls |-> <<projectId>> \o rest.calls]

recalculateMultipleProjects(b, p, projectIds, userId) ==
  RecalcMultipleLoop(b, p, projectIds, userId, <<>>)

(* --------------- convex/lib/govtProjectActivityLogger.ts -------------- *)
LogFaults == {"ok", "fail"}

(* one activity record per call unless a fault is met; never raises *)
logGovtProjectActivity(fault) ==
  [raised |-> FALSE, written |-> IF fault = "ok" THEN 1 ELSE 0]

(* one activity record per item, one shared batch id; never raises *)
logBulkGovtProjectActivity(fault, n) ==
  [raised |-> FALSE, written |-> IF fault = "ok" THEN n ELSE 0]

(* ------------------------ convex/govtProjects.ts ---------------------- *)
Ev(e, id) == [e |-> e, id |-> id]
RecalcEvents(calls) == [i \in 1..Len(calls) |-> Ev("recalc", calls[i])]
Counters(p) == [x \in DOMAIN p |-> <<p[x].projectCompleted, p[x].projectDelayed,
                                     p[x].projectsOnTrack>>]

(* what a handler leaves behind: the store and the observable outcome *)
(* ids: the breakdowns written, oldFks/newFks: their parent before/after *)
Result(b, p, op, outcome, events, ids, oldFks, newFks, affected, logged) ==
  [b |-> b, p |-> p, op |-> op, outcome |-> outcome, events |-> events,
   ids |-> ids, oldFks |-> oldFks, newFks |-> newFks, affected |-> affected,
   logged |-> logged, ret |-> NoRet, target |-> NoProject, argFk |-> Absent]

Thrown(b, p, op, outcome, events) ==
  Result(b, p, op, outcome, events, <<>>, <<>>, <<>>, 0, 0)

(* ctx.db.delete(id): the id is never handed out again *)
Deleted == [alive |-> FALSE, projectId |-> NoProject, status |-> NoStatus,
            projectName |-> "", implementingOffice |-> ""]
Found(b, id) == id \in 1..Len(b) /\ b[id].alive

(* mutant: the parent is not looked up before the insert *)
createProjectBreakdown_NoParentCheck(b, p, userId, args, fault) ==
  IF userId = NoUser THEN Thrown(b, p, "create", "NotAuthenticated", <<>>)
  ELSE
    LET b1 == Append(b, [alive |-> TRUE, projectId |-> args.projectId,
                         status |-> args.status,
                         projectName |-> args.projectName,
                         implementingOffice |-> args.implementingOffice])
        breakdownId == Len(b1)
        lg == logGovtProjectActivity(fault)
        ids == IF args.projectId # Absent THEN <<args.projectId>> ELSE <<>>
        rc == RecalcEach(b1, p, ids, userId)
        ev == <<Ev("write", "-"), Ev("log", "-")>> \o RecalcEvents(rc.calls)
    IN [Result(b1, rc.p, "create", IF rc.ok THEN "ok" ELSE "StoreError", ev,
               <<breakdownId>>, <<NoProject>>, <<args.projectId>>, Len(ids),
               lg.written) EXCEPT !.argFk = args.projectId]

createProjectBreakdown(b, p, userId, args, fault) ==
  IF userId = NoUser THEN Thrown(b, p, "create", "NotAuthenticated", <<>>)
  ELSE IF args.projectId # Absent /\ args.projectId \notin DOMAIN p
  THEN Thrown(b, p, "create", "NotFound", <<>>)
  ELSE
    LET b1 == Append(b, [alive |-> TRUE, projectId |-> args.projectId,
                         status |-> args.status,
                         projectName |-> args.projectName,
                         implementingOffice |-> args.implementingOffice])
        breakdownId == Len(b1)
        lg == logGovtProjectActivity(fault)
        ids == IF args.projectId # Absent THEN <<args.projectId>> ELSE <<>>
        rc == RecalcEach(b1, p, ids, userId)
        ev == <<Ev("write", "-"), Ev("log", "-")>> \o RecalcEvents(rc.calls)
    IN [Result(b1, rc.p, "create", IF rc.ok THEN "ok" ELSE "StoreError", ev,
               <<breakdownId>>, <<NoProject>>, <<args.projectId>>, Len(ids),
               lg.written) EXCEPT !.argFk = args.projectId]

(* ctx.db.patch(breakdownId, {...updates}): only the supplied fields change *)
PatchBreakdown(b, id, args) ==
  [b EXCEPT ![id] = [@ EXCEPT
     !.projectId = IF args.projectId = Absent THEN @ ELSE args.projectId,
     !.status = IF args.status = Absent THEN @ ELSE args.status]]

(* mutant: the old parent is recalculated only when a new one is supplied *)
updateProjectBreakdown_NewParentOnly(b, p, userId, breakdownId, args, fault) ==
  IF userId = NoUser THEN Thrown(b, p, "update", "NotAuthenticated", <<>>)
  ELSE IF ~Found(b, breakdownId) THEN Thrown(b, p, "update", "NotFound", <<>>)
  ELSE IF args.projectId # Absent /\ args.projectId \notin DOMAIN p
  THEN Thrown(b, p, "update", "NotFound", <<>>)
  ELSE
    LET oldProjectId == b[breakdownId].projectId
        b1 == PatchBreakdown(b, breakdownId, args)
        lg == logGovtProjectActivity(fault)
        s0 == IF oldProjectId # NoProject /\ args.projectId # Absent
                 /\ oldProjectId # args.projectId
              THEN <<oldProjectId>> ELSE <<>>
        projectsToRecalculate ==
              IF args.projectId # Absent THEN SetAdd(s0, args.projectId) ELSE s0
        rc == RecalcEach(b1, p, projectsToRecalculate, userId)
        ev == <<Ev("write", "-"), Ev("log", "-")>> \o RecalcEvents(rc.calls)
    IN [Result(b1, rc.p, "update", IF rc.ok THEN "ok" ELSE "StoreError", ev,
               <<breakdownId>>, <<oldProjectId>>, <<b1[breakdownId].projectId>>,
               Len(projectsToRecalculate), lg.written)
          EXCEPT !.argFk = args.projectId]

(* mutant: only the parent the child had before is recalculated *)
updateProjectBreakdown_OldParentOnly(b, p, userId, breakdownId, args, fault) ==
  IF userId = NoUser THEN Thrown(b, p, "update", "NotAuthenticated", <<>>)
  ELSE IF ~Found(b, breakdownId) THEN Thrown(b, p, "update", "NotFound", <<>>)
  ELSE IF args.projectId # Absent /\ args.projectId \notin DOMAIN p
  THEN Thrown(b, p, "update", "NotFound", <<>>)
  ELSE
    LET oldProjectId == b[breakdownId].projectId
        b1 == PatchBreakdown(b, breakdownId, args)
        lg == logGovtProjectActivity(fault)
        projectsToRecalculate ==
              IF oldProjectId # NoProject THEN <<oldProjectId>> ELSE <<>>
        rc == RecalcEach(b1, p, projectsToRecalculate, userId)
        ev == <<Ev("write", "-"), Ev("log", "-")>> \o RecalcEvents(rc.calls)
    IN [Result(b1, rc.p, "update", IF rc.ok THEN "ok" ELSE "StoreError", ev,
               <<breakdownId>>, <<oldProjectId>>, <<b1[breakdownId].projectId>>,
               Len(projectsToRecalculate), lg.written)
          EXCEPT !.argFk = args.projectId]

updateProjectBreakdown(b, p, userId, breakdownId, args, fault) ==
  IF userId = NoUser THEN Thrown(b, p, "update", "NotAuthenticated", <<>>)
  ELSE IF ~Found(b, breakdownId) THEN Thrown(b, p, "update", "NotFound", <<>>)
  ELSE IF args.projectId # Absent /\ args.projectId \notin DOMAIN p
  THEN Thrown(b, p, "update", "NotFound", <<>>)
  ELSE
    LET oldProjectId == b[breakdownId].projectId
        b1 == PatchBreakdown(b, breakdownId, args)
        lg == logGovtProjectActivity(fault)
        s0 == IF oldProjectId # NoProject /\ oldProjectId # args.projectId
              THEN <<oldProjectId>> ELSE <<>>
        projectsToRecalculate ==
              IF args.projectId # Absent THEN SetAdd(s0, args.projectId) ELSE s0
        rc == RecalcEach(b1, p, projectsToRecalculate, userId)
        ev == <<Ev("write", "-"), Ev("log", "-")>> \o RecalcEvents(rc.calls)
    IN [Result(b1, rc.p, "update", IF rc.ok THEN "ok" ELSE "StoreError", ev,
               <<breakdownId>>, <<oldProjectId>>, <<b1[breakdownId].projectId>>,
               Len(projectsToRecalculate), lg.written)
          EXCEPT !.argFk = args.projectId]

(* mutant: a missing breakdown is passed over in silence *)
deleteProjectBreakdown_IgnoreMissing(b, p, userId, breakdownId, fault) ==
  IF userId = NoUser THEN Thrown(b, p, "delete", "NotAuthenticated", <<>>)
  ELSE IF ~Found(b, breakdownId)
  THEN Result(b, p, "delete", "ok", <<Ev("log", "-")>>, <<>>, <<>>, <<>>, 0,
              logGovtProjectActivity(fault).written)
  ELSE
    LET projectId == b[breakdownId].projectId
        b1 == [b EXCEPT ![breakdownId] = Deleted]
        lg == logGovtProjectActivity(fault)
        ids == IF projectId # NoProject THEN <<projectId>> ELSE <<>>
        rc == RecalcEach(b1, p, ids, userId)
        ev == <<Ev("write", "-"), Ev("log", "-")>> \o RecalcEvents(rc.calls)
    IN Result(b1, rc.p, "delete", IF rc.ok THEN "ok" ELSE "StoreError", ev,
              <<breakdownId>>, <<projectId>>, <<NoProject>>, Len(ids), lg.written)

(* mutant: the handler takes the deleted child off the parent's counter  *)
(* itself instead of asking for a recalculation                          *)
deleteProjectBreakdown_PatchParent(b, p, userId, breakdownId, fault) ==
  IF userId = NoUser THEN Thrown(b, p, "delete", "NotAuthenticated", <<>>)
  ELSE IF ~Found(b, breakdownId) THEN Thrown(b, p, "delete", "NotFound", <<>>)
  ELSE
    LET projectId == b[breakdownId].projectId
        status == b[breakdownId].status
        b1 == [b EXCEPT ![breakdownId] = Deleted]
        lg == logGovtProjectActivity(fault)
        p1 == IF projectId \notin DOMAIN p THEN p
              ELSE [p EXCEPT ![projectId] = [@ EXCEPT
                      !.projectCompleted = IF status = "completed" THEN @ - 1 ELSE @,
                      !.projectDelayed = IF status = "delayed" THEN @ - 1 ELSE @,
                      !.projectsOnTrack = IF status = "ongoing" THEN @ - 1 ELSE @]]
    IN Result(b1, p1, "delete", "ok", <<Ev("write", "-"), Ev("log", "-")>>,
              <<breakdownId>>, <<projectId>>, <<NoProject>>, 0, lg.written)

deleteProjectBreakdown(b, p, userId, breakdownId, fault) ==
  IF userId = NoUser THEN Thrown(b, p, "delete", "NotAuthenticated", <<>>)
  ELSE IF ~Found(b, breakdownId) THEN Thrown(b, p, "delete", "NotFound", <<>>)
  ELSE
    LET projectId == b[breakdownId].projectId
        b1 == [b EXCEPT ![breakdownId] = Deleted]
        lg == logGovtProjectActivity(fault)
        ids == IF projectId # NoProject THEN <<projectId>> ELSE <<>>
        rc == RecalcEach(b1, p, ids, userId)
        ev == <<Ev("write", "-"), Ev("log", "-")>> \o RecalcEvents(rc.calls)
    IN Result(b1, rc.p, "delete", IF rc.ok THEN "ok" ELSE "StoreError", ev,
              <<breakdownId>>, <<projectId>>, <<NoProject>>, Len(ids), lg.written)

(* loop state of the bulk handlers *)
Acc(b, affected, ids, oldFks, newFks) ==
  [b |-> b, affected |-> affected, ids |-> ids, oldFks |-> oldFks,
   newFks |-> newFks]
Acc0(b) == Acc(b, <<>>, <<>>, <<>>, <<>>)

(* mutant: the loop takes the items from the last to the first *)
RECURSIVE BulkCreateLoop_Backwards(_, _)
BulkCreateLoop_Backwards(items, acc) ==
  IF items = <<>> THEN acc
  ELSE LET breakdown == items[Len(items)]
           b1 == Append(acc.b, [alive |-> TRUE, projectId |-> breakdown.projectId,
                                status |-> breakdown.status,
                                projectName |-> breakdown.projectName,
                                implementingOffice |->
                                   breakdown.implementingOffice])
       IN BulkCreateLoop_Backwards(SubSeq(items, 1, Len(items) - 1),
            Acc(b1,
                IF breakdown.projectId # Absent
                THEN SetAdd(acc.affected, breakdown.projectId) ELSE acc.affected,
                Append(acc.ids, Len(b1)),
                Append(acc.oldFks, NoProject),
                Append(acc.newFks, breakdown.projectId)))

(* "for (const breakdown of args.breakdowns)": in list order, each once *)
RECURSIVE BulkCreateLoop(_, _)
BulkCreateLoop(items, acc) ==
  IF items = <<>> THEN acc
  ELSE LET breakdown == Head(items)
           b1 == Append(acc.b, [alive |-> TRUE, projectId |-> breakdown.projectId,
                                status |-> breakdown.status,
                                projectName |-> breakdown.projectName,
                                implementingOffice |->
                                   breakdown.implementingOffice])
       IN BulkCreateLoop(Tail(items),
            Acc(b1,
                IF breakdown.projectId # Absent
                THEN SetAdd(acc.affected, breakdown.projectId) ELSE acc.affected,
                Append(acc.ids, Len(b1)),
                Append(acc.oldFks, NoProject),
                Append(acc.newFks, breakdown.projectId)))

(* mutant: only the parent named by the update is tracked *)
RECURSIVE BulkUpdateLoop_NewParentOnly(_, _)
BulkUpdateLoop_NewParentOnly(updates, acc) ==
  IF updates = <<>> THEN acc
  ELSE LET update == Head(updates)
           breakdownId == update.breakdownId
       IN IF ~Found(acc.b, breakdownId)
          THEN BulkUpdateLoop_NewParentOnly(Tail(updates), acc)
          ELSE LET previousBreakdown == acc.b[breakdownId]
                   a2 == IF update.projectId # Absent
                         THEN SetAdd(acc.affected, update.projectId)
                         ELSE acc.affected
                   b1 == PatchBreakdown(acc.b, breakdownId, update)
               IN BulkUpdateLoop_NewParentOnly(Tail(updates),
                    Acc(b1, a2, Append(acc.ids, breakdownId),
                        Append(acc.oldFks, previousBreakdown.projectId),
                        Append(acc.newFks, b1[breakdownId].projectId)))

(* "for (const update of args.updates)": a missing id is skipped, old and  *)
(* new parent of an updated item are tracked                               *)
RECURSIVE BulkUpdateLoop(_, _)
BulkUpdateLoop(updates, acc) ==
  IF updates = <<>> THEN acc
  ELSE LET update == Head(updates)
           breakdownId == update.breakdownId
       IN IF ~Found(acc.b, breakdownId)
          THEN BulkUpdateLoop(Tail(updates), acc)
          ELSE LET previousBreakdown == acc.b[breakdownId]
                   a1 == IF previousBreakdown.projectId # NoProject
                         THEN SetAdd(acc.affected, previousBreakdown.projectId)
                         ELSE acc.affected
                   a2 == IF update.projectId # Absent
                         THEN SetAdd(a1, update.projectId) ELSE a1
                   b1 == PatchBreakdown(acc.b, breakdownId, update)
               IN BulkUpdateLoop(Tail(updates),
                    Acc(b1, a2, Append(acc.ids, breakdownId),
                        Append(acc.oldFks, previousBreakdown.projectId),
                        Append(acc.newFks, b1[breakdownId].projectId)))

(* mutant: the loop ends at the first id that is not in the store *)
RECURSIVE BulkDeleteLoop_StopAtMissing(_, _)
BulkDeleteLoop_StopAtMissing(breakdownIds, acc) ==
  IF breakdownIds = <<>> THEN acc
  ELSE LET breakdownId == Head(breakdownIds)
       IN IF ~Found(acc.b, breakdownId)
          THEN acc
          ELSE LET breakdown == acc.b[breakdownId]
               IN BulkDeleteLoop_StopAtMissing(Tail(breakdownIds),
                    Acc([acc.b EXCEPT ![breakdownId] = Deleted],
                        IF breakdown.projectId # NoProject
                        THEN SetAdd(acc.affected, breakdown.projectId)
                        ELSE acc.affected,
                        Append(acc.ids, breakdownId),
                        Append(acc.oldFks, breakdown.projectId),
                        Append(acc.newFks, NoProject)))

(* "if (!breakdown) { console.warn(...); continue; }": a missing id is skipped *)
RECURSIVE BulkDeleteLoop(_, _)
BulkDeleteLoop(breakdownIds, acc) ==
  IF breakdownIds = <<>> THEN acc
  ELSE LET breakdownId == Head(breakdownIds)
       IN IF ~Found(acc.b, breakdownId)
          THEN BulkDeleteLoop(Tail(breakdownIds), acc)
          ELSE LET breakdown == acc.b[breakdownId]
               IN BulkDeleteLoop(Tail(breakdownIds),
                    Acc([acc.b EXCEPT ![breakdownId] = Deleted],
                        IF breakdown.projectId # NoProject
                        THEN SetAdd(acc.affected, breakdown.projectId)
                        ELSE acc.affected,
                        Append(acc.ids, breakdownId),
                        Append(acc.oldFks, breakdown.projectId),
                        Append(acc.newFks, NoProject)))

(* mutant: the bulk handlers recalculate before they log *)
BulkFinish_RecalcFirst(op, acc, p, userId, fault) ==
  LET lg == logBulkGovtProjectActivity(fault, Len(acc.ids))
      rc == RecalcEach(acc.b, p, acc.affected, userId)
      ev == [i \in 1..Len(acc.ids) |-> Ev("write", "-")]
              \o RecalcEvents(rc.calls) \o <<Ev("log", "-")>>
  IN Result(acc.b, rc.p, op, IF rc.ok THEN "ok" ELSE "StoreError", ev,
            acc.ids, acc.oldFks, acc.newFks, Len(acc.affected), lg.written)

(* the common tail of the three bulk handlers: log once, recalc, report *)
BulkFinish(op, acc, p, userId, fault) ==
  LET lg == logBulkGovtProjectActivity(fault, Len(acc.ids))
      rc == RecalcEach(acc.b, p, acc.affected, userId)
      ev == [i \in 1..Len(acc.ids) |-> Ev("write", "-")]
              \o <<Ev("log", "-")>> \o RecalcEvents(rc.calls)
  IN Result(acc.b, rc.p, op, IF rc.ok THEN "ok" ELSE "StoreError", ev,
            acc.ids, acc.oldFks, acc.newFks, Len(acc.affected), lg.written)

bulkCreateBreakdowns(b, p, userId, items, fault) ==
  IF userId = NoUser THEN Thrown(b, p, "bulkCreate", "NotAuthenticated", <<>>)
  ELSE BulkFinish("bulkCreate", BulkCreateLoop(items, Acc0(b)),
                  p, userId, fault)

bulkUpdateBreakdowns(b, p, userId, updates, fault) ==
  IF userId = NoUser THEN Thrown(b, p, "bulkUpdate", "NotAuthenticated", <<>>)
  ELSE BulkFinish("bulkUpdate", BulkUpdateLoop(updates, Acc0(b)),
                  p, userId, fault)

bulkDeleteBreakdowns(b, p, userId, breakdownIds, fault) ==
  IF userId = NoUser THEN Thrown(b, p, "bulkDelete", "NotAuthenticated", <<>>)
  ELSE BulkFinish("bulkDelete", BulkDeleteLoop(breakdownIds, Acc0(b)),
                  p, userId, fault)

(* mutant: no check of the caller *)
recalculateProject_NoAuthCheck(b, p, userId, projectId) ==
  LET result == recalculateProjectMetrics(b, p, projectId, userId)
  IN [Result(b, result.p, "recalc", IF result.ok THEN "ok" ELSE "StoreError",
             <<Ev("recalc", projectId)>>, <<>>, <<>>, <<>>, 0, 0)
        EXCEPT !.ret = result.ret, !.target = projectId]

(* mutation recalculateProject *)
recalculateProject(b, p, userId, projectId) ==
  IF userId = NoUser THEN Thrown(b, p, "recalc", "NotAuthenticated", <<>>)
  ELSE LET result == recalculateProjectMetrics(b, p, projectId, userId)
       IN [Result(b, result.p, "recalc", IF result.ok THEN "ok" ELSE "StoreError",
                  <<Ev("recalc", projectId)>>, <<>>, <<>>, <<>>, 0, 0)
             EXCEPT !.ret = result.ret, !.target = projectId]

(* users table: "U0" is signed in but has no user document; role of the others *)
Ghost == "U0"
HasUserRecord(userId) == userId \in Users
Role(userId) == IF userId = "U2" THEN "super_admin" ELSE "user"

(* ctx.db.query("projects").collect(), in table order *)
AllProjects(p) == IF "P1" \in DOMAIN p
                  THEN (IF "P2" \in DOMAIN p THEN <<"P1", "P2">> ELSE <<"P1">>)
                  ELSE (IF "P2" \in DOMAIN p THEN <<"P2">> ELSE <<>>)

(* mutant: every signed-in caller is served *)
recalculateAllProjects_AnyUser(b, p, userId) ==
  IF userId = NoUser THEN Thrown(b, p, "recalcAll", "NotAuthenticated", <<>>)
  ELSE LET allProjects == AllProjects(p)
           rc == RecalcEach(b, p, allProjects, userId)
       IN Result(b, rc.p, "recalcAll", IF rc.ok THEN "ok" ELSE "StoreError",
                 RecalcEvents(rc.calls), <<>>, <<>>, <<>>,
                 Len(allProjects), 0)

(* mutant: parents without children are left out of the run *)
recalculateAllProjects_SkipChildless(b, p, userId) ==
  IF userId = NoUser THEN Thrown(b, p, "recalcAll", "NotAuthenticated", <<>>)
  ELSE IF ~HasUserRecord(userId) \/ Role(userId) # "super_admin"
  THEN Thrown(b, p, "recalcAll", "NotAuthorized", <<>>)
  ELSE LET allProjects == SelectSeq(AllProjects(p),
                             LAMBDA x : Len(ChildrenOf(b, x)) > 0)
           rc == RecalcEach(b, p, allProjects, userId)
       IN Result(b, rc.p, "recalcAll", IF rc.ok THEN "ok" ELSE "StoreError",
                 RecalcEvents(rc.calls), <<>>, <<>>, <<>>,
                 Len(allProjects), 0)

(* mutation recalculateAllProjects *)
recalculateAllProjects(b, p, userId) ==
  IF userId = NoUser THEN Thrown(b, p, "recalcAll", "NotAuthenticated", <<>>)
  ELSE IF ~HasUserRecord(userId) \/ Role(userId) # "super_admin"
  THEN Thrown(b, p, "recalcAll", "NotAuthorized", <<>>)
  ELSE LET allProjects == AllProjects(p)
           rc == RecalcEach(b, p, allProjects, userId)
       IN Result(b, rc.p, "recalcAll", IF rc.ok THEN "ok" ELSE "StoreError",
                 RecalcEvents(rc.calls), <<>>, <<>>, <<>>,
                 Len(allProjects), 0)

(* ------------------- convex/lib/aggregationUtils.ts ------------------- *)
(* a field value of an item: a number, or something typeof does not call   *)
(* a number (a string, null, or undefined when the field is missing)       *)
Number(n) == [t |-> "number", v |-> n]
Text(x) == [t |-> "string", v |-> x]
Null == [t |-> "null", v |-> 0]
Undefined == [t |-> "undefined", v |-> 0]

(* results are exact fractions, so that a mean is not rounded *)
RECURSIVE Gcd(_, _)
Gcd(a, c) == IF c = 0 THEN a ELSE Gcd(c, a % c)
Frac(n, d) == LET g == Gcd(n, d) IN [num |-> n \div g, den |-> d \div g]
Whole(n) == [num |-> n, den |-> 1]
NoResult == [num |-> 0, den |-> 0]

FieldOf(item, field) == IF field \in DOMAIN item THEN item[field] ELSE Undefined

(* items.map(item => item[sourceField]).filter(v => typeof v === "number") *)
NumericValues(items, field) ==
  LET vs == [i \in 1..Len(items) |-> FieldOf(items[i], field)]
      ns == SelectSeq(vs, LAMBDA x : x.t = "number")
  IN [i \in 1..Len(ns) |-> ns[i].v]

RECURSIVE SumZero(_, _)
SumZero(items, field) ==
  IF items = <<>> THEN 0
  ELSE LET value == FieldOf(Head(items), field)
       IN (IF value.t = "number" THEN value.v ELSE 0) + SumZero(Tail(items), field)

Min(ns) == CHOOSE x \in Elems(ns) : \A y \in Elems(ns) : x <= y
Max(ns) == CHOOSE x \in Elems(ns) : \A y \in Elems(ns) : x >= y

(* mutant: the mean is taken over all items *)
Aggregate_AvgOverAll(items, fieldConfig) ==
  LET f == fieldConfig.aggregateFunction
      values == NumericValues(items, fieldConfig.sourceField)
  IN IF f = "sum" THEN Whole(SumZero(items, fieldConfig.sourceField))
     ELSE IF f = "avg"
          THEN (IF Len(values) > 0 THEN Frac(SeqSum(values), Len(items)) ELSE NoResult)
     ELSE IF f = "min" THEN (IF Len(values) > 0 THEN Whole(Min(values)) ELSE NoResult)
     ELSE IF f = "max" THEN (IF Len(values) > 0 THEN Whole(Max(values)) ELSE NoResult)
     ELSE Whole(Len(SelectSeq(items,
             LAMBDA item : FieldOf(item, fieldConfig.sourceField).t
                              \notin {"null", "undefined"})))

(* the switch over fieldConfig.aggregateFunction *)
Aggregate(items, fieldConfig) ==
  LET f == fieldConfig.aggregateFunction
      values == NumericValues(items, fieldConfig.sourceField)
  IN IF f = "sum" THEN Whole(SumZero(items, fieldConfig.sourceField))
     ELSE IF f = "avg"
          THEN (IF Len(values) > 0 THEN Frac(SeqSum(values), Len(values)) ELSE NoResult)
     ELSE IF f = "min" THEN (IF Len(values) > 0 THEN Whole(Min(values)) ELSE NoResult)
     ELSE IF f = "max" THEN (IF Len(values) > 0 THEN Whole(Max(values)) ELSE NoResult)
     ELSE Whole(Len(SelectSeq(items,
             LAMBDA item : FieldOf(item, fieldConfig.sourceField).t
                              \notin {"null", "undefined"})))

(* aggregatedValues[targetValueKey] = result, later fields overwrite earlier *)
RECURSIVE AggregatedValues(_, _, _)
AggregatedValues(items, fields, acc) ==
  IF fields = <<>> THEN acc
  ELSE LET fc == Head(fields)
           result == Aggregate(items, fc)
       IN AggregatedValues(items, Tail(fields),
            [k \in DOMAIN acc \cup {fc.targetValueKey} |->
               IF k = fc.targetValueKey THEN result ELSE acc[k]])

AggregateName(fc) == <<fc.aggregateFunction, "_", fc.sourceField>>

(* mutant: an undefined result is stored under its name as well *)
RECURSIVE NamedAggregations_KeepUndefined(_, _, _)
NamedAggregations_KeepUndefined(items, fields, acc) ==
  IF fields = <<>> THEN acc
  ELSE LET fc == Head(fields)
           result == Aggregate(items, fc)
       IN NamedAggregations_KeepUndefined(items, Tail(fields),
            [k \in DOMAIN acc \cup {AggregateName(fc)} |->
               IF k = AggregateName(fc) THEN result ELSE acc[k]])

(* namedAggregations[`${function}_${field}`] = result unless undefined *)
RECURSIVE NamedAggregations(_, _, _)
NamedAggregations(items, fields, acc) ==
  IF fields = <<>> THEN acc
  ELSE LET fc == Head(fields)
           result == Aggregate(items, fc)
       IN NamedAggregations(items, Tail(fields),
            IF result # NoResult
            THEN [k \in DOMAIN acc \cup {AggregateName(fc)} |->
                    IF k = AggregateName(fc) THEN result ELSE acc[k]]
            ELSE acc)

EmptyMap == [k \in {} |-> NoResult]

(* mutant: the keys are taken from the last item *)
GroupingKeys_LastItem(items, config) ==
  [i \in 1..Len(config.groupByFields) |->
     FieldOf(items[Len(items)], config.groupByFields[i])]

(* key1..keyN from the first item *)
GroupingKeys(items, config) ==
  [i \in 1..Len(config.groupByFields) |-> FieldOf(items[1], config.groupByFields[i])]

DisplayLabel(items, config) ==
  IF config.labelTemplate = "subtotal"
  THEN <<FieldOf(items[1], "projectName"), " - ",
         FieldOf(items[1], "implementingOffice"), " (Subtotal)">>
  ELSE <<config.entityType, " ", config.aggregationType>>

(* q.field("groupingKeys.keyN") of a stored record *)
KeyField(rec, n) ==
  IF n <= Len(rec.groupingKeys) THEN rec.groupingKeys[n] ELSE Undefined

(* mutant: the filter reads key0..keyN-1 *)
Matches_OffByOne(rec, items, config) ==
  /\ rec.entityType = config.entityType
  /\ rec.aggregationType = config.aggregationType
  /\ \A n \in 1..Len(config.groupByFields) :
        (IF n = 1 THEN Undefined ELSE KeyField(rec, n - 1))
           = FieldOf(items[1], config.groupByFields[n])

(* withIndex(entityTypeAndAggregationType).filter(key1..keyN of the config) *)
Matches(rec, items, config) ==
  /\ rec.entityType = config.entityType
  /\ rec.aggregationType = config.aggregationType
  /\ \A n \in 1..Len(config.groupByFields) :
        KeyField(rec, n) = FieldOf(items[1], config.groupByFields[n])

(* .first(): the oldest matching record, 0 when there is none *)
Existing(table, items, config) ==
  LET hits == {i \in 1..Len(table) : Matches(table[i], items, config)}
  IN IF hits = {} THEN 0 ELSE CHOOSE i \in hits : \A j \in hits : i <= j

(* mutant: the update also rewrites the creation fields *)
PatchAggregation_Recreate(rec, items, config, userId, now) ==
  [rec EXCEPT
     !.aggregatedValues = AggregatedValues(items, config.aggregateFields, EmptyMap),
     !.namedAggregations = NamedAggregations(items, config.aggregateFields, EmptyMap),
     !.displayLabel = DisplayLabel(items, config),
     !.rowCount = Len(items),
     !.createdAt = now,
     !.createdBy = userId,
     !.updatedAt = now,
     !.updatedBy = userId]

(* ctx.db.patch(existing._id, {...}) *)
PatchAggregation(rec, items, config, userId, now) ==
  [rec EXCEPT
     !.aggregatedValues = AggregatedValues(items, config.aggregateFields, EmptyMap),
     !.namedAggregations = NamedAggregations(items, config.aggregateFields, EmptyMap),
     !.displayLabel = DisplayLabel(items, config),
     !.rowCount = Len(items),
     !.updatedAt = now,
     !.updatedBy = userId]

(* ctx.db.insert("aggregations", {...}) *)
NewAggregation(items, config, userId, now) ==
  [entityType |-> config.entityType,
   aggregationType |-> config.aggregationType,
   groupingKeys |-> GroupingKeys(items, config),
   aggregatedValues |-> AggregatedValues(items, config.aggregateFields, EmptyMap),
   namedAggregations |-> NamedAggregations(items, config.aggregateFields, EmptyMap),
   displayLabel |-> DisplayLabel(items, config),
   rowCount |-> Len(items),
   hierarchyLevel |-> config.hierarchyLevel,
   createdBy |-> userId, createdAt |-> now, updatedAt |-> now,
   updatedBy |-> NoUser]

(* mutant: the emptiness check comes after the lookup *)
calculateAggregation_CheckAfterLookup(table, items, config, userId, now) ==
  IF Len(items) = 0
  THEN [table |-> table, outcome |-> "EmptyInput", aggregationId |-> 0,
        reads |-> 1, writes |-> 0]
  ELSE LET existing == Existing(table, items, config)
       IN IF existing # 0
          THEN [table |-> [table EXCEPT ![existing] =
                             PatchAggregation(@, items, config, userId, now)],
                outcome |-> "updated", aggregationId |-> existing,
                reads |-> 1, writes |-> 1]
          ELSE [table |-> Append(table, NewAggregation(items, config, userId, now)),
                outcome |-> "created", aggregationId |-> Len(table) + 1,
                reads |-> 1, writes |-> 1]

(* mutant: an existing record is patched and a new one is inserted too *)
calculateAggregation_InsertToo(table, items, config, userId, now) ==
  IF Len(items) = 0
  THEN [table |-> table, outcome |-> "EmptyInput", aggregationId |-> 0,
        reads |-> 0, writes |-> 0]
  ELSE LET existing == Existing(table, items, config)
       IN IF existing # 0
          THEN [table |-> Append([table EXCEPT ![existing] =
                                    PatchAggregation(@, items, config, userId, now)],
                                 NewAggregation(items, config, userId, now)),
                outcome |-> "updated", aggregationId |-> existing,
                reads |-> 1, writes |-> 2]
          ELSE [table |-> Append(table, NewAggregation(items, config, userId, now)),
                outcome |-> "created", aggregationId |-> Len(table) + 1,
                reads |-> 1, writes |-> 1]

(* result: the table afterwards, the id returned and which branch ran *)
calculateAggregation(table, items, config, userId, now) ==
  IF Len(items) = 0
  THEN [table |-> table, outcome |-> "EmptyInput", aggregationId |-> 0,
        reads |-> 0, writes |-> 0]
  ELSE LET existing == Existing(table, items, config)
       IN IF existing # 0
          THEN [table |-> [table EXCEPT ![existing] =
                             PatchAggregation(@, items, config, userId, now)],
                outcome |-> "updated", aggregationId |-> existing,
                reads |-> 1, writes |-> 1]
          ELSE [table |-> Append(table, NewAggregation(items, config, userId, now)),
                outcome |-> "created", aggregationId |-> Len(table) + 1,
                reads |-> 1, writes |-> 1]

Fc(sourceField, aggregateFunction, targetValueKey) ==
  [sourceField |-> sourceField, aggregateFunction |-> aggregateFunction,
   targetValueKey |-> targetValueKey]

getGovtProjectSubtotalConfig ==
  [entityType |-> "govtProjects",
   aggregationType |-> "subtotal",
   groupByFields |-> <<"projectName", "implementingOffice">>,
   aggregateFields |-> <<Fc("allocatedBudget", "sum", "value1"),
                         Fc("obligatedBudget", "sum", "value2"),
                         Fc("budgetUtilized", "sum", "value3"),
                         Fc("balance", "sum", "value4"),
                         Fc("utilizationRate", "avg", "value5")>>,
   labelTemplate |-> "subtotal",
   hierarchyLevel |-> 1]

(* -------- convex/govtProjects.ts: the subtotal entrypoints ----------- *)
(* a breakdown document as calculateAggregation reads it *)
ItemFields == {"allocatedBudget", "obligatedBudget", "budgetUtilized", "balance",
               "utilizationRate"}
ItemOf(r) ==
  [k \in {"projectName", "implementingOffice"} \cup (DOMAIN r \cap ItemFields) |->
     IF k \in ItemFields THEN r[k] ELSE Text(r[k])]
ItemsOf(rs) == [i \in 1..Len(rs) |-> ItemOf(rs[i])]

(* query("govtProjectBreakdowns").collect() *)
AllBreakdowns(b) == SelectSeq(b, LAMBDA r : r.alive)

(* withIndex("projectNameAndOffice", eq(projectName).eq(implementingOffice)) *)
ByNameAndOffice(rs, projectName, implementingOffice) ==
  SelectSeq(rs, LAMBDA r : r.projectName = projectName
                           /\ r.implementingOffice = implementingOffice)

Refused(table, outcome) ==
  [table |-> table, outcome |-> outcome, aggregationId |-> 0,
   reads |-> 0, writes |-> 0, processed |-> 0]

calculateProjectSubtotal(b, table, userId, projectName, implementingOffice, now) ==
  IF userId = NoUser THEN Refused(table, "NotAuthenticated")
  ELSE LET found == ByNameAndOffice(AllBreakdowns(b), projectName,
                                    implementingOffice)
       IN IF Len(found) = 0 THEN Refused(table, "NoBreakdowns")
          ELSE LET result == calculateAggregation(table, ItemsOf(found),
                                getGovtProjectSubtotalConfig, userId, now)
               IN [table |-> result.table, outcome |-> result.outcome,
                   aggregationId |-> result.aggregationId,
                   reads |-> result.reads, writes |-> result.writes,
                   processed |-> 1]

(* the text of a name, piece by piece: two of the names hold the text      *)
(* "|||" themselves, every other name is one piece                         *)
Pieces(name) ==
  CASE name = "A|||B" -> <<"A", "|||", "B">>
    [] name = "B|||C" -> <<"B", "|||", "C">>
    [] OTHER -> <<name>>

(* `${b.projectName}|||${b.implementingOffice}`, a Map in insertion order *)
ComboKey(r) == Pieces(r.projectName) \o <<"|||">> \o Pieces(r.implementingOffice)
RECURSIVE UniqueCombinations(_, _)
UniqueCombinations(rs, seen) ==
  IF rs = <<>> THEN seen
  ELSE UniqueCombinations(Tail(rs),
         IF \E i \in 1..Len(seen) : ComboKey(seen[i]) = ComboKey(Head(rs))
         THEN seen
         ELSE Append(seen, [projectName |-> Head(rs).projectName,
                            implementingOffice |-> Head(rs).implementingOffice]))

(* the loop over uniqueCombinations.values(): one calculateAggregation each *)
RECURSIVE SubtotalEach(_, _, _, _, _, _)
SubtotalEach(combos, allBreakdowns, table, userId, now, acc) ==
  IF combos = <<>> THEN [acc EXCEPT !.table = table]
  ELSE LET combo == Head(combos)
           mine == SelectSeq(allBreakdowns,
                     LAMBDA r : r.projectName = combo.projectName
                                /\ r.implementingOffice = combo.implementingOffice)
           result == calculateAggregation(table, ItemsOf(mine),
                        getGovtProjectSubtotalConfig, userId, now)
       IN IF result.outcome = "EmptyInput"
          THEN [acc EXCEPT !.table = table, !.outcome = "EmptyInput"]
          ELSE SubtotalEach(Tail(combos), allBreakdowns, result.table, userId, now,
                 [acc EXCEPT !.reads = @ + result.reads,
                             !.writes = @ + result.writes,
                             !.processed = @ + 1])

recalculateAllSubtotals(b, table, userId, now) ==
  IF userId = NoUser THEN Refused(table, "NotAuthenticated")
  ELSE LET allBreakdowns == AllBreakdowns(b)
       IN SubtotalEach(UniqueCombinations(allBreakdowns, <<>>), allBreakdowns,
                       table, userId, now, Refused(table, "ok"))

(* ---------- convex/lib/{project,particular,category}ActivityLogger ---- *)
NotANumber == [t |-> "nan", v |-> 0]

(* JSON.stringify of a field value: undefined for a missing field, "null"  *)
(* for null and for NaN                                                    *)
Stringify(value) ==
  IF value.t = "undefined" THEN <<"undefined">>
  ELSE IF value.t = "null" \/ value.t = "nan" THEN <<"null">>
  ELSE IF value.t = "number" THEN <<"number", ToString(value.v)>>
  ELSE <<"string", value.v>>

(* the truthiness of a field value *)
Truthy(value) ==
  \/ value.t = "string" /\ value.v # ""
  \/ value.t = "number" /\ value.v # 0

(* Object.keys, in one fixed property order *)
KeyOrder == <<"_id", "_creationTime", "createdAt", "createdBy", "updatedAt",
              "updatedBy", "status", "totalBudgetAllocated",
              "targetDateCompletion", "projectManagerId", "categoryId",
              "isActive", "displayOrder", "usageCount", "remarks",
              "particulars", "implementingOffice", "code", "fullName">>
ObjectKeys(obj) == SelectSeq(KeyOrder, LAMBDA k : k \in DOMAIN obj)

RECURSIVE AddAll(_, _)
AddAll(s, xs) == IF xs = <<>> THEN s ELSE AddAll(SetAdd(s, Head(xs)), Tail(xs))

(* new Set([...Object.keys(previousValues), ...Object.keys(newValues)]) *)
AllKeys(config) ==
  AddAll(ObjectKeys(config.previousValues), ObjectKeys(config.newValues))

SystemFields == {"_id", "_creationTime", "updatedAt", "updatedBy", "createdAt",
                 "createdBy"}
ParticularSystemFields == SystemFields \cup {"usageCount"}

(* a variant of the loop that compares the values themselves *)
RECURSIVE DiffLoop_ByValue(_, _, _, _)
DiffLoop_ByValue(keys, config, skipped, changedFields) ==
  IF keys = <<>> THEN changedFields
  ELSE LET key == Head(keys)
           pVal == FieldOf(config.previousValues, key)
           nVal == FieldOf(config.newValues, key)
       IN DiffLoop_ByValue(Tail(keys), config, skipped,
            IF key \in skipped THEN changedFields
            ELSE IF pVal # nVal
                 THEN Append(changedFields, key)
                 ELSE changedFields)

(* the for loop over allKeys: skip the excluded keys, push the others when *)
(* the two serialisations differ                                           *)
RECURSIVE DiffLoop(_, _, _, _)
DiffLoop(keys, config, skipped, changedFields) ==
  IF keys = <<>> THEN changedFields
  ELSE LET key == Head(keys)
           pVal == FieldOf(config.previousValues, key)
           nVal == FieldOf(config.newValues, key)
       IN DiffLoop(Tail(keys), config, skipped,
            IF key \in skipped THEN changedFields
            ELSE IF Stringify(pVal) # Stringify(nVal)
                 THEN Append(changedFields, key)
                 ELSE changedFields)

(* config.action === "updated" && config.previousValues && config.newValues *)
Diffable(config) ==
  config.action = "updated" /\ config.hasPrevious /\ config.hasNew

ChangedFields(config, skipped) ==
  IF Diffable(config) THEN DiffLoop(AllKeys(config), config, skipped, <<>>)
  ELSE <<>>

Includes(sq, x) == \E i \in 1..Len(sq) : sq[i] = x

(* an object literal being filled: obj.key = value *)
Put(obj, key, value) ==
  [k \in DOMAIN obj \cup {key} |-> IF k = key THEN value ELSE obj[k]]
EmptyObject == [k \in {} |-> Undefined]
True == [t |-> "boolean", v |-> 1]

(* a variant of the summary that raises statusChanged on any change *)
ProjectSummary_AnyChange(config, changedFields) ==
  LET s1 == IF Includes(changedFields, "totalBudgetAllocated")
            THEN Put(Put(Put(EmptyObject, "budgetChanged", True),
                         "oldBudget",
                         FieldOf(config.previousValues, "totalBudgetAllocated")),
                     "newBudget", FieldOf(config.newValues, "totalBudgetAllocated"))
            ELSE EmptyObject
      s2 == IF Includes(changedFields, "targetDateCompletion")
            THEN Put(s1, "scheduleChanged", True) ELSE s1
      s3 == IF Includes(changedFields, "projectManagerId")
            THEN Put(s2, "managerChanged", True) ELSE s2
      s4 == IF changedFields # <<>>
            THEN Put(s3, "statusChanged", True) ELSE s3
  IN IF Includes(changedFields, "categoryId")
     THEN Put(s4, "categoryChanged", True) ELSE s4

(* "Build Smart Summaries" of logProjectActivity *)
ProjectSummary(config, changedFields) ==
  LET s1 == IF Includes(changedFields, "totalBudgetAllocated")
            THEN Put(Put(Put(EmptyObject, "budgetChanged", True),
                         "oldBudget",
                         FieldOf(config.previousValues, "totalBudgetAllocated")),
                     "newBudget", FieldOf(config.newValues, "totalBudgetAllocated"))
            ELSE EmptyObject
      s2 == IF Includes(changedFields, "targetDateCompletion")
            THEN Put(s1, "scheduleChanged", True) ELSE s1
      s3 == IF Includes(changedFields, "projectManagerId")
            THEN Put(s2, "managerChanged", True) ELSE s2
      s4 == IF Includes(changedFields, "status")
            THEN Put(s3, "statusChanged", True) ELSE s3
  IN IF Includes(changedFields, "categoryId")
     THEN Put(s4, "categoryChanged", True) ELSE s4

(* the isActive and displayOrder summary of the particular and category loggers *)
ActiveLabel(value) == IF Truthy(value) THEN Text("active") ELSE Text("inactive")
EntitySummary(config, changedFields) ==
  LET s1 == IF Includes(changedFields, "isActive")
            THEN Put(Put(Put(EmptyObject, "statusChanged", True),
                         "oldStatus",
                         ActiveLabel(FieldOf(config.previousValues, "isActive"))),
                     "newStatus",
                     ActiveLabel(FieldOf(config.newValues, "isActive")))
            ELSE EmptyObject
  IN IF Includes(changedFields, "displayOrder")
     THEN Put(s1, "orderChanged", True) ELSE s1

(* users table: the record of each user id; "U2" has no name and no role *)
UserRecord(userId) ==
  IF userId = "U1" THEN [name |-> "Ana", email |-> "ana@ppdo", role |-> "admin"]
  ELSE [name |-> "", email |-> "", role |-> ""]
OrElse(x, dflt) == IF x = "" THEN dflt ELSE x

(* config.project || config.newValues || config.previousValues || {} ; the *)
(* calls modelled here pass no separate entity snapshot                    *)
SnapshotData(config) ==
  IF config.hasNew THEN config.newValues
  ELSE IF config.hasPrevious THEN config.previousValues ELSE EmptyObject

(* value || dflt *)
ValueOr(value, dflt) == IF Truthy(value) THEN value ELSE Text(dflt)

(* what a logger call leaves behind: raised = an exception reached the     *)
(* caller, written = documents inserted, printed = objects given to        *)
(* console.log, changedFields and changeSummary = the locals of that name  *)
LogFaultsAll == {"ok", "user_missing", "get_throws", "insert_throws"}
Escaped(thrown) ==
  [thrown |-> thrown, written |-> <<>>, printed |-> <<>>,
   changedFields |-> <<>>, changeSummary |-> EmptyObject]

(* the body of the try block of logProjectActivity *)
logProjectActivity_Try(userId, config, fault) ==
  IF fault = "get_throws" THEN Escaped(TRUE)
  ELSE IF fault = "user_missing" THEN Escaped(FALSE)
  ELSE
    LET user == UserRecord(userId)
        projectData == SnapshotData(config)
        changedFields == ChangedFields(config, SystemFields)
        changeSummary == IF Diffable(config)
                         THEN ProjectSummary(config, changedFields)
                         ELSE EmptyObject
        doc == [action |-> config.action,
                particulars |-> ValueOr(FieldOf(projectData, "particulars"),
                                        "Unknown Project"),
                implementingOffice |->
                   ValueOr(FieldOf(projectData, "implementingOffice"),
                           "Unknown Office"),
                hasPreviousValues |-> config.hasPrevious,
                hasNewValues |-> config.hasNew,
                hasChangedFields |-> Len(changedFields) > 0,
                changedFields |-> changedFields,
                hasChangeSummary |-> DOMAIN changeSummary # {},
                changeSummary |-> changeSummary,
                performedBy |-> userId,
                performedByName |-> OrElse(user.name, "Unknown"),
                performedByEmail |-> OrElse(user.email, ""),
                performedByRole |-> OrElse(user.role, "user")]
    IN IF fault = "insert_throws"
       THEN [Escaped(TRUE) EXCEPT !.changedFields = changedFields,
                                  !.changeSummary = changeSummary]
       ELSE [thrown |-> FALSE, written |-> <<doc>>, printed |-> <<>>,
             changedFields |-> changedFields, changeSummary |-> changeSummary]

(* a variant whose catch block throws the error on *)
logProjectActivity_Rethrow(userId, config, fault) ==
  LET t == logProjectActivity_Try(userId, config, fault)
  IN [raised |-> t.thrown, written |-> t.written, printed |-> t.printed,
      changedFields |-> t.changedFields, changeSummary |-> t.changeSummary]

(* try { ... } catch (error) { console.error(...) } *)
logProjectActivity(userId, config, fault) ==
  LET t == logProjectActivity_Try(userId, config, fault)
  IN [raised |-> FALSE, written |-> t.written, printed |-> t.printed,
      changedFields |-> t.changedFields, changeSummary |-> t.changeSummary]

(* the particular and the category logger differ in the excluded keys and  *)
(* in the default of fullName; neither inserts a document                  *)
EntityLog_Try(userId, config, fault, skipped, unknown) ==
  IF fault = "get_throws" THEN Escaped(TRUE)
  ELSE IF fault = "user_missing" THEN Escaped(FALSE)
  ELSE
    LET user == UserRecord(userId)
        data == SnapshotData(config)
        changedFields == ChangedFields(config, skipped)
        changeSummary == IF Diffable(config)
                         THEN EntitySummary(config, changedFields)
                         ELSE EmptyObject
        line == [action |-> config.action,
                 code |-> ValueOr(FieldOf(data, "code"), "Unknown"),
                 fullName |-> ValueOr(FieldOf(data, "fullName"), unknown),
                 changedFields |-> changedFields,
                 changeSummary |-> changeSummary,
                 performedBy |-> OrElse(user.name, "Unknown")]
    IN [thrown |-> FALSE, written |-> <<>>, printed |-> <<line>>,
        changedFields |-> changedFields, changeSummary |-> changeSummary]

logParticularActivity(userId, config, fault) ==
  LET t == EntityLog_Try(userId, config, fault, ParticularSystemFields,
                         "Unknown Particular")
  IN [raised |-> FALSE, written |-> t.written, printed |-> t.printed,
      changedFields |-> t.changedFields, changeSummary |-> t.changeSummary]

logCategoryActivity(userId, config, fault) ==
  LET t == EntityLog_Try(userId, config, fault, SystemFields,
                         "Unknown Category")
  IN [raised |-> FALSE, written |-> t.written, printed |-> t.printed,
      changedFields |-> t.changedFields, changeSummary |-> t.changeSummary]

IdleLog == lastLog = [phase |-> "idle"]

(* ------------------------- the cascade machine ------------------------ *)
(* every mutation entrypoint of govtProjects.ts over one store; the       *)
(* subtotal entrypoints are called here anonymously or for an office      *)
(* without breakdowns, so that the aggregations table stays as it is      *)
Principals == Users \cup {NoUser}
FkArgs == ProjectIds \cup {Absent}
StatusArgs == statusValidator \cup {Absent}
(* the required names of a child; the optional amounts are left out *)
ProjectNames == {"X"}
Offices == {"Y"}
ChildArgs == [projectId : FkArgs, status : StatusArgs,
              projectName : ProjectNames, implementingOffice : Offices]
(* the signed-in user of the child mutations; "U1" lacks the admin role *)
Actors == {"U2"}
BulkLogFaults == {"ok"}
BulkFkArgs == ExistingProjects \cup {Absent}
BulkStatusArgs == {Absent, "completed"}
BulkCreateArgs == [projectId : BulkFkArgs, status : BulkStatusArgs,
                   projectName : ProjectNames, implementingOffice : Offices]
BulkUpdateArgs == [breakdownId : 1..MaxBreakdowns, projectId : BulkFkArgs,
                   status : {Absent}]

(* the parents of the recalculateProjectMetrics calls of an operation *)
Recalculated(events) ==
  LET rs == SelectSeq(events, LAMBDA x : x.e = "recalc")
  IN [i \in 1..Len(rs) |-> rs[i].id]

(* the store after a handler ran, with what it reported; prior = what the  *)
(* recalculated parents held before; again = a recalc that repeats the     *)
(* successful recalc right before it, whose result is prevRet              *)
(* what a subtotal entrypoint did to the aggregations table *)
NoAgg == [reads |-> 0, writes |-> 0, processed |-> 0, aggregationId |-> 0]

Call(userId, breakdownId, projectId) ==
  [userId |-> userId, breakdownId |-> breakdownId, projectId |-> projectId]

Commit(r, call) ==
  /\ breakdowns' = r.b
  /\ projects' = r.p
  /\ lastOp' =
       LET again == /\ r.op = "recalc" /\ r.outcome = "ok"
                    /\ lastOp.op = "recalc" /\ lastOp.outcome = "ok"
                    /\ lastOp.target = r.target
           calls == Recalculated(r.events)
       IN [op |-> r.op, outcome |-> r.outcome, call |-> call,
           agg |-> NoAgg, events |-> r.events,
           ids |-> r.ids, oldFks |-> r.oldFks, newFks |-> r.newFks,
           argFk |-> r.argFk, affected |-> r.affected, logged |-> r.logged,
           ret |-> r.ret, target |-> r.target,
           prior |-> [i \in 1..Len(calls) |->
                        IF calls[i] \in DOMAIN projects
                        THEN Counters(projects)[calls[i]] ELSE <<0, 0, 0>>],
           again |-> again,
           prevRet |-> IF again THEN lastOp.ret ELSE NoRet]
  /\ UNCHANGED <<aggregations, lastAgg, lastLog>>

(* a parent document: the rollup and audit fields, and of the fields the  *)
(* rollup leaves alone its name, its allocated total and its status      *)
InitProject == [projectCompleted |-> 0, projectDelayed |-> 0,
                projectsOnTrack |-> 0, updatedAt |-> 0, updatedBy |-> NoUser,
                projectName |-> "N", totalBudgetAllocated |-> 100,
                status |-> "pending"]

InitCascade ==
  /\ breakdowns = <<>>
  /\ projects = [x \in ExistingProjects |-> InitProject]
  /\ lastOp = [op |-> "init", outcome |-> "ok",
               call |-> Call(NoUser, 0, Absent), agg |-> NoAgg,
               events |-> <<>>,
               ids |-> <<>>, oldFks |-> <<>>, newFks |-> <<>>,
               argFk |-> Absent, affected |-> 0, logged |-> 0, ret |-> NoRet,
               target |-> NoProject, prior |-> <<>>, again |-> FALSE,
               prevRet |-> NoRet]

(* an unauthenticated call throws before it reads its arguments *)
NoArgs == [projectId |-> Absent, status |-> Absent,
           projectName |-> "X", implementingOffice |-> "Y"]

Create ==
  /\ Len(breakdowns) < MaxBreakdowns
  /\ \/ Commit(createProjectBreakdown(breakdowns, projects, NoUser, NoArgs, "ok"),
               Call(NoUser, 0, Absent))
     \/ \E userId \in Actors, args \in ChildArgs, fault \in LogFaults :
          Commit(createProjectBreakdown(breakdowns, projects, userId, args, fault),
                 Call(userId, 0, args.projectId))

Update ==
  \/ Commit(updateProjectBreakdown(breakdowns, projects, NoUser, 1, NoArgs, "ok"),
            Call(NoUser, 1, Absent))
  \/ \E userId \in Actors, breakdownId \in 1..MaxBreakdowns,
        args \in ChildArgs, fault \in LogFaults :
       Commit(updateProjectBreakdown(breakdowns, projects, userId, breakdownId,
                                     args, fault),
              Call(userId, breakdownId, args.projectId))

Delete ==
  \/ Commit(deleteProjectBreakdown(breakdowns, projects, NoUser, 1, "ok"),
            Call(NoUser, 1, Absent))
  \/ \E userId \in Actors, breakdownId \in 1..MaxBreakdowns, fault \in LogFaults :
       Commit(deleteProjectBreakdown(breakdowns, projects, userId, breakdownId,
                                     fault),
              Call(userId, breakdownId, Absent))

BulkCreate ==
  \/ Commit(bulkCreateBreakdowns(breakdowns, projects, NoUser, <<>>, "ok"),
            Call(NoUser, 0, Absent))
  \/ \E userId \in Actors, items \in SeqsUpTo(BulkCreateArgs, MaxBatch),
        fault \in BulkLogFaults :
       /\ Len(breakdowns) + Len(items) <= MaxBreakdowns
       /\ Commit(bulkCreateBreakdowns(breakdowns, projects, userId, items, fault),
                 Call(userId, 0, Absent))

BulkUpdate ==
  \/ Commit(bulkUpdateBreakdowns(breakdowns, projects, NoUser, <<>>, "ok"),
            Call(NoUser, 0, Absent))
  \/ \E userId \in Actors, updates \in SeqsUpTo(BulkUpdateArgs, MaxBatch),
        fault \in BulkLogFaults :
       Commit(bulkUpdateBreakdowns(breakdowns, projects, userId, updates, fault),
              Call(userId, 0, Absent))

BulkDelete ==
  \/ Commit(bulkDeleteBreakdowns(breakdowns, projects, NoUser, <<>>, "ok"),
            Call(NoUser, 0, Absent))
  \/ \E userId \in Actors, breakdownIds \in SeqsUpTo(1..MaxBreakdowns, MaxBatch),
        fault \in BulkLogFaults :
       Commit(bulkDeleteBreakdowns(breakdowns, projects, userId, breakdownIds,
                                   fault),
              Call(userId, 0, Absent))

Recalc ==
  \E userId \in Actors \cup {NoUser}, projectId \in ProjectIds :
    Commit(recalculateProject(breakdowns, projects, userId, projectId),
           Call(userId, 0, projectId))

RecalcAll ==
  \E userId \in Principals \cup {Ghost} :
    Commit(recalculateAllProjects(breakdowns, projects, userId),
           Call(userId, 0, Absent))

(* who asks for subtotals, and what Date.now() returns then; "Z" is an   *)
(* office without breakdowns                                             *)
Anonymous == [userId |-> NoUser, now |-> 0]
SubtotalCallers == {Anonymous, [userId |-> "U2", now |-> 2]}

(* the store after a subtotal entrypoint ran *)
CommitSubtotal(r, op, caller) ==
  /\ aggregations' = r.table
  /\ lastOp' = [op |-> op, outcome |-> r.outcome,
                call |-> Call(caller.userId, 0, Absent),
                agg |-> [reads |-> r.reads, writes |-> r.writes,
                         processed |-> r.processed,
                         aggregationId |-> r.aggregationId],
                events |-> <<>>, ids |-> <<>>, oldFks |-> <<>>, newFks |-> <<>>,
                argFk |-> Absent, affected |-> 0, logged |-> 0, ret |-> NoRet,
                target |-> NoProject, prior |-> <<>>, again |-> FALSE,
                prevRet |-> NoRet]
  /\ UNCHANGED <<breakdowns, projects, lastAgg, lastLog>>

Subtotal(callers, offices) ==
  \E caller \in callers, projectName \in ProjectNames,
     implementingOffice \in offices :
    CommitSubtotal(calculateProjectSubtotal(breakdowns, aggregations,
                      caller.userId, projectName, implementingOffice, caller.now),
                   "subtotal", caller)

RecalcSubtotals(callers) ==
  \E caller \in callers :
    CommitSubtotal(recalculateAllSubtotals(breakdowns, aggregations,
                      caller.userId, caller.now),
                   "recalcSubtotals", caller)

NextCascade ==
  \/ Create \/ Update \/ Delete
  \/ BulkCreate \/ BulkUpdate \/ BulkDelete
  \/ Recalc \/ RecalcAll
  \/ Subtotal(SubtotalCallers, {"Z"}) \/ RecalcSubtotals({Anonymous})

(* ------------------- the machine of failing parents ------------------- *)
(* "P3" is the id of a parent that is no longer in the store; the bulk    *)
(* create accepts it, and recalculateMultipleProjects is handed lists     *)
(* that may hold it                                                       *)
OrphanArgs == [projectId : {"P1", "P3"}, status : {"completed", "delayed"},
               projectName : ProjectNames, implementingOffice : Offices]

BulkCreateOrphans ==
  \E userId \in Actors, items \in SeqsUpTo(OrphanArgs, MaxBatch) :
    /\ Len(items) > 0
    /\ Len(breakdowns) + Len(items) <= MaxBreakdowns
    /\ Commit(bulkCreateBreakdowns(breakdowns, projects, userId, items, "ok"),
              Call(userId, 0, Absent))

(* the store after recalculateMultipleProjects ran, the list it was given *)
(* and the results it returned                                            *)
CommitMany(r, userId, projectIds) ==
  /\ projects' = r.p
  /\ lastOp' = [op |-> "recalcMany",
                outcome |-> IF r.ok THEN "ok" ELSE "StoreError",
                call |-> Call(userId, 0, Absent), agg |-> NoAgg,
                events |-> RecalcEvents(r.calls),
                ids |-> <<>>, oldFks |-> <<>>, newFks |-> <<>>,
                argFk |-> Absent, affected |-> Len(projectIds), logged |-> 0,
                ret |-> NoRet, target |-> NoProject,
                prior |-> <<>>, again |-> FALSE, prevRet |-> NoRet,
                projectIds |-> projectIds, results |-> r.results]
  /\ UNCHANGED <<breakdowns, aggregations, lastAgg, lastLog>>

RecalcMany ==
  \E userId \in Actors, projectIds \in SeqsUpTo(ProjectIds, MaxBatch) :
    /\ Len(projectIds) > 0
    /\ CommitMany(recalculateMultipleProjects(breakdowns, projects, projectIds,
                                              userId),
                  userId, projectIds)

NextFail == BulkCreateOrphans \/ RecalcMany

(* the bulk update is handed the id "P3" as the new parent of its items *)
OrphanUpdates == [breakdownId : 1..MaxBreakdowns, projectId : {"P2", "P3"},
                  status : {Absent}]

BulkUpdateOrphans ==
  \E userId \in Actors, updates \in SeqsUpTo(OrphanUpdates, MaxBatch) :
    /\ Len(updates) > 0
    /\ Commit(bulkUpdateBreakdowns(breakdowns, projects, userId, updates, "ok"),
              Call(userId, 0, Absent))

NextOrphan == BulkCreateOrphans \/ BulkUpdateOrphans

(* ---------------------- the aggregation machine ---------------------- *)
MaxItems == 2
(* who calls and what Date.now() returns then *)
Callers == {[userId |-> "U1", now |-> 1], [userId |-> "U2", now |-> 2]}
AggItems == [projectName : {Text("X")},
             implementingOffice : {Text("Y"), Text("Z")},
             allocatedBudget : {Number(1)},
             utilizationRate : {Number(1)}]
AggConfigs == {getGovtProjectSubtotalConfig}

InitAgg ==
  /\ aggregations = <<>>
  /\ lastAgg = [outcome |-> "init", aggregationId |-> 0,
                reads |-> 0, writes |-> 0,
                keys |-> <<>>, userId |-> NoUser, now |-> 0, rowCount |-> 0,
                sizeBefore |-> 0, prevKeys |-> <<>>, prevId |-> 0]

(* one call of calculateAggregation; prevKeys/prevId = the grouping keys   *)
(* and the id returned by the successful call right before it              *)
CalculateUnder(configs, callers) ==
  \E items \in SeqsUpTo(AggItems, MaxItems), config \in configs,
     caller \in callers :
    LET userId == caller.userId
        now == caller.now
        r == calculateAggregation(aggregations, items, config, userId, now)
        ok == r.outcome # "EmptyInput"
    IN /\ aggregations' = r.table
       /\ lastAgg' = [outcome |-> r.outcome, aggregationId |-> r.aggregationId,
                      reads |-> r.reads, writes |-> r.writes,
                      keys |-> IF ok THEN GroupingKeys(items, config) ELSE <<>>,
                      userId |-> userId, now |-> now, rowCount |-> Len(items),
                      sizeBefore |-> Len(aggregations),
                      prevKeys |-> lastAgg.keys,
                      prevId |-> lastAgg.aggregationId]
       /\ UNCHANGED <<breakdowns, projects, lastOp, lastLog>>

Calculate == CalculateUnder(AggConfigs, Callers)

(* the same entity and aggregation type grouped by the project name alone *)
ByProjectName ==
  [getGovtProjectSubtotalConfig EXCEPT !.groupByFields = <<"projectName">>]

(* calls under both groupings over one table *)
CalculateEither ==
  CalculateUnder(AggConfigs \cup {ByProjectName}, {[userId |-> "U2", now |-> 2]})

NextKeys == CalculateEither

(* calls over lists whose items may belong to different offices; the call  *)
(* keeps the list it was given and the table it found                      *)
MixedItems == [projectName : {Text("X")},
               implementingOffice : {Text("Y"), Text("Z")},
               allocatedBudget : {Number(1), Number(2)}]

CalculateMixed ==
  \E items \in SeqsUpTo(MixedItems, MaxItems) \ {<<>>} :
    LET r == calculateAggregation(aggregations, items,
                                  getGovtProjectSubtotalConfig, "U2", 2)
    IN /\ aggregations' = r.table
       /\ lastAgg' = [outcome |-> r.outcome, aggregationId |-> r.aggregationId,
                      items |-> items, before |-> aggregations]
       /\ UNCHANGED <<breakdowns, projects, lastOp, lastLog>>

NextMixed == CalculateMixed

(* the table of breakdowns stays empty in this machine *)
NextAgg ==
  \/ Calculate
  \/ Subtotal(SubtotalCallers \ {Anonymous}, {"Y"})
Init == InitCascade /\ InitAgg /\ IdleLog
SpecAgg == Init /\ [][NextAgg]_vars
SpecFail == Init /\ [][NextFail]_vars
SpecOrphan == Init /\ [][NextOrphan]_vars
SpecKeys == Init /\ [][NextKeys]_vars
SpecMixed == Init /\ [][NextMixed]_vars


(* each machine runs with the tables of the others at rest *)
(* ===================== state machine: activity loggers =============== *)
MaxSnapshotKeys == 2

Loggers == {"project", "particular", "category"}
LogActions == {"updated", "created"}
FieldValues == {Text("ongoing"), Text("completed"), Null, NotANumber}

(* the keys a snapshot of each entity may carry *)
SnapshotKeys(logger) ==
  IF logger = "project"
  THEN {"status", "totalBudgetAllocated", "targetDateCompletion",
        "projectManagerId", "categoryId", "updatedAt", "remarks"}
  ELSE {"isActive", "displayOrder", "usageCount", "updatedAt"}

(* the value of one key before and after; Undefined = the key is missing *)
FieldPairs ==
  {pr \in (FieldValues \cup {Undefined}) \X (FieldValues \cup {Undefined}) :
      pr # <<Undefined, Undefined>>}
Side(f, n) == [k \in {k \in DOMAIN f : f[k][n] # Undefined} |-> f[k][n]]

NoLogResult ==
  [raised |-> FALSE, written |-> <<>>, printed |-> <<>>,
   changedFields |-> <<>>, changeSummary |-> EmptyObject]

(* one pending logger call; the calls with at most one key also vary the   *)
(* action, the actor, the failure and the absence of a snapshot            *)
PendingCall ==
  \E logger \in Loggers :
  \E Ks \in {K \in SUBSET SnapshotKeys(logger) : Cardinality(K) <= MaxSnapshotKeys} :
  \E f \in [Ks -> FieldPairs] :
  \E action \in (IF Cardinality(Ks) <= 1 THEN LogActions ELSE {"updated"}) :
  \E userId \in (IF Cardinality(Ks) <= 1 THEN Users ELSE {"U1"}) :
  \E fault \in (IF Cardinality(Ks) <= 1
                THEN (IF logger = "project" THEN LogFaultsAll
                      ELSE LogFaultsAll \ {"insert_throws"})
                ELSE {"ok"}) :
  \E hasPrevious \in (IF DOMAIN Side(f, 1) = {} THEN BOOLEAN ELSE {TRUE}) :
  \E hasNew \in (IF DOMAIN Side(f, 2) = {} THEN BOOLEAN ELSE {TRUE}) :
    lastLog = [phase |-> "call", logger |-> logger, userId |-> userId,
               fault |-> fault,
               config |-> [action |-> action,
                           hasPrevious |-> hasPrevious,
                           previousValues |-> Side(f, 1),
                           hasNew |-> hasNew,
                           newValues |-> Side(f, 2)],
               result |-> NoLogResult]

Return(result) ==
  /\ lastLog' = [lastLog EXCEPT !.phase = "done", !.result = result]
  /\ UNCHANGED <<breakdowns, projects, lastOp, aggregations, lastAgg>>

LogProject ==
  /\ lastLog.phase = "call" /\ lastLog.logger = "project"
  /\ Return(logProjectActivity(lastLog.userId, lastLog.config, lastLog.fault))

LogParticular ==
  /\ lastLog.phase = "call" /\ lastLog.logger = "particular"
  /\ Return(logParticularActivity(lastLog.userId, lastLog.config, lastLog.fault))

LogCategory ==
  /\ lastLog.phase = "call" /\ lastLog.logger = "category"
  /\ Return(logCategoryActivity(lastLog.userId, lastLog.config, lastLog.fault))

NextLog == LogProject \/ LogParticular \/ LogCategory
InitLog == InitCascade /\ InitAgg /\ PendingCall
SpecLog == InitLog /\ [][NextLog]_vars

(* ------------------------- the activity trail ------------------------ *)
(* the activity tables under a sequence of logger calls and logged child  *)
(* mutations: projectActivities is written by logProjectActivity, the     *)
(* breakdown activities by the logger of govtProjects.ts                  *)
MaxActivities == 2

(* mutant: the newest record is replaced *)
InsertActivities_Overwrite(table, docs) ==
  IF table # <<>> /\ docs # <<>>
  THEN SubSeq(table, 1, Len(table) - 1) \o docs ELSE table \o docs

(* ctx.db.insert(<activity table>, doc) for each document of a call *)
InsertActivities(table, docs) == table \o docs

(* the records logGovtProjectActivity leaves for one handler call *)
GovtActivities(action, breakdownId, written) ==
  [i \in 1..written |-> [action |-> action, breakdownId |-> breakdownId]]

(* mutation logBreakdownView *)
logBreakdownView(b, userId, breakdownId, fault) ==
  IF userId = NoUser THEN [outcome |-> "NotAuthenticated", logged |-> 0]
  ELSE IF ~Found(b, breakdownId) THEN [outcome |-> "NotFound", logged |-> 0]
  ELSE [outcome |-> "ok", logged |-> logGovtProjectActivity(fault).written]

TrailConfigs ==
  {[action |-> action, hasPrevious |-> TRUE,
    previousValues |-> [status |-> Text("ongoing")],
    hasNew |-> TRUE, newValues |-> [status |-> Text("completed")]] :
      action \in LogActions}
TrailArgs == [projectId |-> "P1", status |-> "completed",
              projectName |-> "X", implementingOffice |-> "Y"]

EmptyTrail ==
  lastLog = [phase |-> "trail", projectActivities |-> <<>>,
             breakdownActivities |-> <<>>]

(* the store after a logged child mutation: children, parents, trail *)
CommitLogged(r, action, breakdownId) ==
  /\ Len(lastLog.breakdownActivities) + r.logged <= MaxActivities
  /\ breakdowns' = r.b
  /\ projects' = r.p
  /\ lastLog' = [lastLog EXCEPT !.breakdownActivities =
                    InsertActivities(@, GovtActivities(action, breakdownId,
                                                       r.logged))]
  /\ UNCHANGED <<lastOp, aggregations, lastAgg>>

LogProjectCall ==
  \E config \in TrailConfigs, fault \in LogFaultsAll :
    LET written == logProjectActivity("U1", config, fault).written
    IN /\ Len(lastLog.projectActivities) + Len(written) <= MaxActivities
       /\ lastLog' = [lastLog EXCEPT !.projectActivities =
                         InsertActivities(@, written)]
       /\ UNCHANGED <<breakdowns, projects, lastOp, aggregations, lastAgg>>

CreateLogged ==
  /\ Len(breakdowns) < MaxBreakdowns
  /\ \E fault \in LogFaults :
       CommitLogged(createProjectBreakdown(breakdowns, projects, "U2",
                                           TrailArgs, fault),
                    "created", Len(breakdowns) + 1)

DeleteLogged ==
  \E breakdownId \in 1..MaxBreakdowns, fault \in LogFaults :
    CommitLogged(deleteProjectBreakdown(breakdowns, projects, "U2",
                                        breakdownId, fault),
                 "deleted", breakdownId)

ViewLogged ==
  \E userId \in {"U2", NoUser}, breakdownId \in 1..MaxBreakdowns,
     fault \in LogFaults :
    LET r == logBreakdownView(breakdowns, userId, breakdownId, fault)
    IN CommitLogged([b |-> breakdowns, p |-> projects, logged |-> r.logged],
                    "viewed", breakdownId)

(* recalculations and aggregations log nothing *)
RecalcQuiet ==
  LET r == recalculateAllProjects(breakdowns, projects, "U2")
  IN /\ projects' = r.p
     /\ r.logged = 0
     /\ UNCHANGED <<breakdowns, lastOp, aggregations, lastAgg, lastLog>>

NextTrail ==
  LogProjectCall \/ CreateLogged \/ DeleteLogged \/ ViewLogged \/ RecalcQuiet
InitTrail == InitCascade /\ InitAgg /\ EmptyTrail
SpecTrail == InitTrail /\ [][NextTrail]_vars

(* ------------------- bulk calls with missing ids --------------------- *)
(* bulk update and bulk delete over a store seeded by bulk create, asked  *)
(* for ids of which some are not, or no longer, in the store              *)
AskedIds == 1..(MaxBreakdowns + 1)
AskedUpdates == [breakdownId : AskedIds, projectId : {"P2"}, status : {Absent}]

(* the store after a bulk handler ran, with the ids it was asked for and  *)
(* the children it met                                                    *)
CommitAsked(r, requested) ==
  /\ breakdowns' = r.b
  /\ projects' = r.p
  /\ lastOp' = [op |-> r.op, outcome |-> r.outcome, requested |-> requested,
                before |-> breakdowns, ids |-> r.ids, events |-> r.events,
                affected |-> r.affected, logged |-> r.logged]
  /\ UNCHANGED <<aggregations, lastAgg, lastLog>>

BulkUpdateAsked ==
  \E updates \in SeqsUpTo(AskedUpdates, MaxBatch) :
    CommitAsked(bulkUpdateBreakdowns(breakdowns, projects, "U2", updates, "ok"),
                [i \in 1..Len(updates) |-> updates[i].breakdownId])

BulkDeleteAsked ==
  \E breakdownIds \in SeqsUpTo(AskedIds, MaxBatch) :
    CommitAsked(bulkDeleteBreakdowns(breakdowns, projects, "U2", breakdownIds,
                                     "ok"),
                breakdownIds)

NextSkip == BulkCreate \/ BulkUpdateAsked \/ BulkDeleteAsked

(* bulk create and bulk delete with the list each call was given *)
BulkCreateAsked ==
  \E userId \in Principals, items \in SeqsUpTo(BulkCreateArgs, MaxBatch) :
    /\ Len(breakdowns) + Len(items) <= MaxBreakdowns
    /\ CommitAsked(bulkCreateBreakdowns(breakdowns, projects, userId, items, "ok"),
                   items)

NextOrder == BulkCreateAsked \/ BulkDeleteAsked
SpecSkip == Init /\ [][NextSkip]_vars
SpecOrder == Init /\ [][NextOrder]_vars

(* a child document *)
Child(projectId, status) ==
  [alive |-> TRUE, projectId |-> projectId, status |-> status,
   projectName |-> "X", implementingOffice |-> "Y"]

(* ------------------- interleaved store calls ------------------------ *)
(* two status updates of different children of "P1" and two stand-alone   *)
(* recalculations of "P1", interleaved at the store calls of              *)
(* updateProjectBreakdown and recalculateProjectMetrics: the patch of the *)
(* child, the query of the children, the patch of the parent; "F" is one  *)
(* more recalculation that starts when the others are done.               *)
Mutators == {"M1", "M2"}
Recalculators == {"R1", "R2"}
RaceProcs == Mutators \cup Recalculators \cup {"F"}
ChildOfMutator(m) == IF m = "M1" THEN 1 ELSE 2

(* mutant: the reduce leaves out the last child of the query result *)
QueryAndCount_DropLast(b, projectId) ==
  LET kids == ChildrenOf(b, projectId)
  IN IF Len(kids) = 0 THEN ZeroCounts
     ELSE Reduce(SubSeq(kids, 1, Len(kids) - 1), ZeroCounts)

(* the query of recalculateProjectMetrics and the counts taken from it *)
QueryAndCount(b, projectId) ==
  LET kids == ChildrenOf(b, projectId)
  IN IF Len(kids) = 0 THEN ZeroCounts ELSE Reduce(kids, ZeroCounts)

(* mutant: a patch whose counts were taken before the last child write is dropped *)
PatchFromSnapshot_Guarded(p, projectId, counts, userId, stamp, childWrites) ==
  IF stamp = childWrites THEN PatchCounters(p, projectId, counts, userId) ELSE p

(* the patch of recalculateProjectMetrics: whatever the snapshot, it is written *)
PatchFromSnapshot(p, projectId, counts, userId, stamp, childWrites) ==
  PatchCounters(p, projectId, counts, userId)

(* two ongoing children under "P1", counted; each mutator has its new status *)
InitRace ==
  /\ breakdowns = <<Child("P1", "ongoing"), Child("P1", "ongoing")>>
  /\ projects = [x \in ExistingProjects |->
                   IF x = "P1" THEN [InitProject EXCEPT !.projectsOnTrack = 2]
                   ELSE InitProject]
  /\ \E st \in [Mutators -> statusValidator] :
       lastOp = [pc |-> [q \in RaceProcs |->
                           IF q \in Mutators THEN "patch"
                           ELSE IF q = "F" THEN "wait" ELSE "read"],
                 status |-> st,
                 local |-> [q \in RaceProcs |-> ZeroCounts],
                 stamp |-> [q \in RaceProcs |-> 0],
                 childWrites |-> 0,
                 lastPatch |-> "none"]
  /\ InitAgg /\ IdleLog

(* ctx.db.patch(breakdownId, { status }) of updateProjectBreakdown *)
PatchChildStep(m) ==
  /\ m \in Mutators /\ lastOp.pc[m] = "patch"
  /\ breakdowns' = PatchBreakdown(breakdowns, ChildOfMutator(m),
                                  [NoArgs EXCEPT !.status = lastOp.status[m]])
  /\ lastOp' = [lastOp EXCEPT !.pc[m] = "read", !.childWrites = @ + 1]
  /\ UNCHANGED <<projects, aggregations, lastAgg, lastLog>>

(* the final recalculation starts when every other call has returned *)
StartFinal ==
  /\ lastOp.pc["F"] = "wait"
  /\ \A q \in RaceProcs \ {"F"} : lastOp.pc[q] = "done"
  /\ lastOp' = [lastOp EXCEPT !.pc["F"] = "read"]
  /\ UNCHANGED <<breakdowns, projects, aggregations, lastAgg, lastLog>>

(* the query by index projectId and the reduce over its result *)
QueryStep(q) ==
  /\ lastOp.pc[q] = "read"
  /\ lastOp' = [lastOp EXCEPT !.pc[q] = "write",
                              !.local[q] = QueryAndCount(breakdowns, "P1"),
                              !.stamp[q] = lastOp.childWrites]
  /\ UNCHANGED <<breakdowns, projects, aggregations, lastAgg, lastLog>>

(* ctx.db.patch(projectId, { counters, updatedAt, updatedBy }) *)
PatchParentStep(q) ==
  /\ lastOp.pc[q] = "write"
  /\ projects' = PatchFromSnapshot(projects, "P1", lastOp.local[q], "U2",
                                   lastOp.stamp[q], lastOp.childWrites)
  /\ lastOp' = [lastOp EXCEPT !.pc[q] = "done", !.lastPatch = q]
  /\ UNCHANGED <<breakdowns, aggregations, lastAgg, lastLog>>

NextRace ==
  \/ \E m \in Mutators : PatchChildStep(m)
  \/ \E q \in RaceProcs : QueryStep(q)
  \/ \E q \in RaceProcs : PatchParentStep(q)
  \/ StartFinal
SpecRace == InitRace /\ [][NextRace]_vars

(* ---------------------- one recalculation call ----------------------- *)
(* recalculateProjectMetrics applied once to parent "P1", whose children  *)
(* may carry a status of the present validator, none, or one of the       *)
(* legacy table; the parent was last patched by "U1" at time 0 and holds  *)
(* either the right counters or zeros                                     *)
MaxChildren == 3
LegacyStatuses == {"Completed", "On-Going"}
RecalcChildren ==
  {Child("P1", status) :
      status \in statusValidator \cup {NoStatus} \cup LegacyStatuses}
    \cup {Child("P2", "completed")}

PendingRecalc ==
  /\ breakdowns \in SeqsUpTo(RecalcChildren, MaxChildren)
  /\ \E fresh \in BOOLEAN :
       LET counts == IF fresh THEN Reduce(ChildrenOf(breakdowns, "P1"), ZeroCounts)
                     ELSE ZeroCounts
       IN projects = [x \in ExistingProjects |->
                        IF x = "P1"
                        THEN [InitProject EXCEPT
                                !.projectCompleted = counts.completed,
                                !.projectDelayed = counts.delayed,
                                !.projectsOnTrack = counts.onTrack,
                                !.updatedBy = "U1"]
                        ELSE InitProject]
  /\ lastOp = [op |-> "pending", before |-> projects, ok |-> FALSE,
               patches |-> 0, ret |-> NoRet]

RecalcOnce ==
  /\ lastOp.op = "pending"
  /\ LET r == recalculateProjectMetrics(breakdowns, projects, "P1", "U2")
     IN /\ projects' = r.p
        /\ lastOp' = [op |-> "recalcOnce", before |-> projects, ok |-> r.ok,
                      patches |-> r.patches, ret |-> r.ret]
  /\ UNCHANGED <<breakdowns, aggregations, lastAgg, lastLog>>

NextRecalc == RecalcOnce
InitRecalc == PendingRecalc /\ InitAgg /\ IdleLog
SpecRecalc == InitRecalc /\ [][NextRecalc]_vars

(* ----------------------- one bulk update ----------------------------- *)
(* bulk updates that move children between parents, keep them where they  *)
(* are, or name a child that is not in the store                          *)
MovedUpdates == [breakdownId : AskedIds, projectId : ExistingProjects \cup {Absent},
                 status : {Absent, "delayed"}]

(* a store of up to MaxBreakdowns children whose parents count them right *)
PendingMove ==
  /\ breakdowns \in SeqsUpTo({Child(projectId, status) :
                                 projectId \in ExistingProjects,
                                 status \in {"completed", "ongoing"}},
                             MaxBreakdowns)
  /\ projects = [x \in ExistingProjects |->
                   PatchCounters([y \in {x} |-> InitProject], x,
                                 QueryAndCount(breakdowns, x), NoUser)[x]]
  /\ lastOp = [op |-> "pending", outcome |-> "ok", requested |-> <<>>,
               before |-> breakdowns, ids |-> <<>>, events |-> <<>>,
               affected |-> 0, logged |-> 0]

BulkUpdateMoved ==
  /\ lastOp.op = "pending"
  /\ \E updates \in SeqsUpTo(MovedUpdates, MaxBatch) :
       /\ Len(updates) > 0
       /\ CommitAsked(bulkUpdateBreakdowns(breakdowns, projects, "U2", updates,
                                           "ok"),
                      updates)

NextMove == BulkUpdateMoved
InitMove == PendingMove /\ InitAgg /\ IdleLog
SpecMove == InitMove /\ [][NextMove]_vars

(* ------------------- two interleaved aggregations -------------------- *)
(* two calculateAggregation calls over one table, interleaved at their    *)
(* store calls: the query for the existing record, then the patch or the  *)
(* insert that the query's answer selects                                 *)
AggProcs == {"A1", "A2"}

InitTwoCalls ==
  /\ InitCascade /\ IdleLog
  /\ aggregations = <<>>
  /\ \E items \in [AggProcs -> SeqsUpTo(AggItems, MaxItems) \ {<<>>}] :
       lastAgg = [pc |-> [q \in AggProcs |-> "lookup"],
                  items |-> items,
                  existing |-> [q \in AggProcs |-> 0]]

(* the query ... .filter(...).first() *)
LookupStep(q) ==
  /\ lastAgg.pc[q] = "lookup"
  /\ lastAgg' = [lastAgg EXCEPT
                   !.pc[q] = "write",
                   !.existing[q] = Existing(aggregations, lastAgg.items[q],
                                            getGovtProjectSubtotalConfig)]
  /\ UNCHANGED <<breakdowns, projects, lastOp, aggregations, lastLog>>

(* "if (existing) patch else insert", on the answer the query gave *)
WriteStep(q) ==
  /\ lastAgg.pc[q] = "write"
  /\ aggregations' =
       IF lastAgg.existing[q] # 0
       THEN [aggregations EXCEPT ![lastAgg.existing[q]] =
               PatchAggregation(@, lastAgg.items[q],
                                getGovtProjectSubtotalConfig, "U2", 2)]
       ELSE Append(aggregations,
                   NewAggregation(lastAgg.items[q], getGovtProjectSubtotalConfig,
                                  "U2", 2))
  /\ lastAgg' = [lastAgg EXCEPT !.pc[q] = "done"]
  /\ UNCHANGED <<breakdowns, projects, lastOp, lastLog>>

NextTwoCalls ==
  \/ \E q \in AggProcs : LookupStep(q)
  \/ \E q \in AggProcs : WriteStep(q)
SpecTwoCalls == InitTwoCalls /\ [][NextTwoCalls]_vars

(* ------------------------ one export call ---------------------------- *)
(* ctx.db.get(id): the document, which carries its own id, or null *)
NullDoc == [_id |-> 0]
GetBreakdown(b, id) == IF Found(b, id) THEN [_id |-> id] ELSE NullDoc

(* mutation logBreakdownExport: the arguments of each logGovtProjectActivity *)
(* call and the count returned                                               *)
logBreakdownExport(b, userId, breakdownIds) ==
  IF userId = NoUser
  THEN [outcome |-> "NotAuthenticated", calls |-> <<>>, count |-> 0]
  ELSE LET fetched == [i \in 1..Len(breakdownIds) |->
                         GetBreakdown(b, breakdownIds[i])]
           validBreakdowns == SelectSeq(fetched, LAMBDA d : d # NullDoc)
       IN [outcome |-> "ok",
           calls |-> [i \in 1..Len(validBreakdowns) |->
                        [action |-> "exported",
                         breakdownId |-> breakdownIds[i],
                         breakdown |-> validBreakdowns[i]]],
           count |-> Len(validBreakdowns)]

(* a store of live and deleted children and a list of ids to export *)
PendingExport ==
  /\ breakdowns \in SeqsUpTo({Child("P1", "ongoing"), Deleted}, MaxChildren)
  /\ projects = [x \in ExistingProjects |-> InitProject]
  /\ \E userId \in {NoUser, "U2"},
        breakdownIds \in SeqsUpTo(1..(MaxChildren + 1), MaxBatch) :
       lastOp = [op |-> "pending", userId |-> userId,
                 breakdownIds |-> breakdownIds,
                 outcome |-> "ok", calls |-> <<>>, count |-> 0]

ExportOnce ==
  /\ lastOp.op = "pending"
  /\ LET r == logBreakdownExport(breakdowns, lastOp.userId, lastOp.breakdownIds)
     IN lastOp' = [lastOp EXCEPT !.op = "export", !.outcome = r.outcome,
                                 !.calls = r.calls, !.count = r.count]
  /\ UNCHANGED <<breakdowns, projects, aggregations, lastAgg, lastLog>>

NextExport == ExportOnce
InitExport == PendingExport /\ InitAgg /\ IdleLog
SpecExport == InitExport /\ [][NextExport]_vars

(* ------------------- one run over all subtotals --------------------- *)
(* recalculateAllSubtotals applied once to a store whose children carry   *)
(* names with and without the text "|||"                                  *)
NamedChildren ==
  {[Child("P1", "ongoing") EXCEPT !.projectName = projectName,
                                  !.implementingOffice = implementingOffice] :
      projectName \in {"A", "A|||B"}, implementingOffice \in {"C", "B|||C"}}

PendingSubtotals ==
  /\ breakdowns \in SeqsUpTo(NamedChildren, MaxChildren)
  /\ projects = [x \in ExistingProjects |-> InitProject]
  /\ \E userId \in {NoUser, "U2"} :
       lastOp = [op |-> "pending", outcome |-> "ok",
                 call |-> Call(userId, 0, Absent)]

SubtotalsOnce ==
  /\ lastOp.op = "pending"
  /\ CommitSubtotal(recalculateAllSubtotals(breakdowns, aggregations,
                                            lastOp.call.userId, 2),
                    "recalcSubtotals", [userId |-> lastOp.call.userId, now |-> 2])

NextSubtotals == SubtotalsOnce
InitSubtotals == PendingSubtotals /\ InitAgg /\ IdleLog
SpecSubtotals == InitSubtotals /\ [][NextSubtotals]_vars

(* ------------------- one system-wide recalculation ------------------- *)
(* recalculateAllProjects applied once to a store whose parents hold      *)
(* counters that may be out of date, called by an admin, a plain user, a  *)
(* user without a document, or nobody                                     *)
AllChildren == {Child(projectId, status) :
                  projectId \in ExistingProjects, status \in {"completed", "ongoing"}}
StaleCounts == {0, 1}

PendingAll ==
  /\ breakdowns \in SeqsUpTo(AllChildren, MaxChildren)
  /\ \E stale \in [ExistingProjects -> StaleCounts] :
       projects = [x \in ExistingProjects |->
                     [InitProject EXCEPT !.projectCompleted = stale[x]]]
  /\ \E caller \in Principals \cup {Ghost} :
       lastOp = [op |-> "pending", outcome |-> "ok", caller |-> caller,
                 before |-> projects, events |-> <<>>, totalProjects |-> 0]

RecalcAllOnce ==
  /\ lastOp.op = "pending"
  /\ LET r == recalculateAllProjects(breakdowns, projects, lastOp.caller)
     IN /\ projects' = r.p
        /\ lastOp' = [lastOp EXCEPT !.op = "recalcAll", !.outcome = r.outcome,
                                    !.events = r.events,
                                    !.totalProjects = r.affected]
  /\ UNCHANGED <<breakdowns, aggregations, lastAgg, lastLog>>

NextAll == RecalcAllOnce
InitAll == PendingAll /\ InitAgg /\ IdleLog
SpecAll == InitAll /\ [][NextAll]_vars

(* ----------------------- one aggregation call ------------------------ *)
(* calculateAggregation applied once to a non-empty list whose items hold *)
(* a number, a string, null or nothing in the aggregated field, under a   *)
(* config of two aggregate fields                                         *)
AggregateFunctions == {"sum", "avg", "min", "max", "count"}
CalcValues == {Number(100), Number(200), Number(0), Text("n/a"), Null}
CalcItems ==
  {[projectName |-> Text("X"), implementingOffice |-> Text("Y")]}
    \cup {[projectName |-> Text("X"), implementingOffice |-> Text("Y"),
           allocatedBudget |-> value] : value \in CalcValues}
CalcConfig(f, g) ==
  [getGovtProjectSubtotalConfig EXCEPT
     !.aggregateFields = <<Fc("allocatedBudget", f, "value1"),
                           Fc("allocatedBudget", g, "value2")>>]
CalcConfigs == {CalcConfig(f, g) : f \in AggregateFunctions,
                                   g \in AggregateFunctions}

PendingCalc ==
  lastAgg \in [outcome : {"pending"}, aggregationId : {0},
               items : SeqsUpTo(CalcItems, MaxItems) \ {<<>>},
               config : CalcConfigs]

AggregateOnce ==
  /\ lastAgg.outcome = "pending"
  /\ LET r == calculateAggregation(aggregations, lastAgg.items, lastAgg.config,
                                   "U2", 2)
     IN /\ aggregations' = r.table
        /\ lastAgg' = [lastAgg EXCEPT !.outcome = r.outcome,
                                      !.aggregationId = r.aggregationId]
  /\ UNCHANGED <<breakdowns, projects, lastOp, lastLog>>

NextCalc == AggregateOnce
InitCalc == InitCascade /\ aggregations = <<>> /\ PendingCalc /\ IdleLog
SpecCalc == InitCalc /\ [][NextCalc]_vars

Next == NextCascade
Spec == Init /\ [][Next]_vars

(* ======================= properties: the cascade ====================== *)
Alive(P) == {i \in 1..Len(breakdowns) :
               breakdowns[i].alive /\ breakdowns[i].projectId = P}
WithStatus(P, st) == {i \in Alive(P) : breakdowns[i].status = st}
(* the reference value of a parent's rollup, straight from its children *)
TrueCounts(P) == <<Cardinality(WithStatus(P, "completed")),
                   Cardinality(WithStatus(P, "delayed")),
                   Cardinality(WithStatus(P, "ongoing"))>>
Recognized(P) == {i \in Alive(P) : breakdowns[i].status \in statusValidator}
Stored(P) == Counters(projects)[P]
Consistent(P) == Stored(P) = TrueCounts(P)
SingleOps == {"create", "update", "delete"}
BulkOps == {"bulkCreate", "bulkUpdate", "bulkDelete"}

(* C1: right after a successful recalculateProject(P), whatever child      *)
(* mutations came before, P's three counters are the numbers of P's        *)
(* children with status completed, delayed and ongoing, and their sum is   *)
(* the number of P's children with a recognised status.                    *)
C1_RecalcGivesTrueCounts ==
  (lastOp.op = "recalc" /\ lastOp.outcome = "ok") =>
     LET P == lastOp.target
     IN /\ Stored(P) = TrueCounts(P)
        /\ Stored(P)[1] + Stored(P)[2] + Stored(P)[3] = Cardinality(Recognized(P))
        /\ lastOp.ret.breakdownsCount = Cardinality(Alive(P))

C1_Witness ==
  /\ lastOp.op = "recalc" /\ lastOp.outcome = "ok" /\ lastOp.target = "P1"
  /\ Cardinality(Alive("P1")) = 2
  /\ Cardinality(Recognized("P1")) = 1
  /\ Stored("P1") = <<0, 1, 0>>

(* C2: after a successful single create, update or delete every parent the *)
(* child was linked to before or after it holds the per-status counts of   *)
(* its current children; create(ongoing, P1) gives 0/0/1, a status-only    *)
(* update to completed gives 1/0/0, the delete gives 0/0/0.                *)
C2_SingleOpCascade ==
  (lastOp.op \in SingleOps /\ lastOp.outcome = "ok") =>
     /\ \A P \in ExistingProjects :
          (P = lastOp.oldFks[1] \/ P = lastOp.newFks[1]) => Consistent(P)
     /\ lastOp.oldFks[1] \in ExistingProjects \cup {NoProject}
     /\ lastOp.newFks[1] \in ExistingProjects \cup {NoProject}
     /\ \A P \in ExistingProjects :
          LET id == lastOp.ids[1]
              only == Alive(P) = {id}
          IN /\ (lastOp.op = "create" /\ only /\ breakdowns[id].status = "ongoing")
                   => Stored(P) = <<0, 0, 1>>
             /\ (lastOp.op = "update" /\ lastOp.argFk = Absent /\ only
                   /\ breakdowns[id].status = "completed")
                   => Stored(P) = <<1, 0, 0>>
             /\ (lastOp.op = "delete" /\ lastOp.oldFks[1] = P /\ Alive(P) = {})
                   => Stored(P) = <<0, 0, 0>>

C2_Witness ==
  /\ lastOp.op = "update" /\ lastOp.outcome = "ok" /\ lastOp.argFk = Absent
  /\ lastOp.oldFks = <<"P1">> /\ lastOp.newFks = <<"P1">>
  /\ lastOp.prior = <<<<0, 0, 1>>>>
  /\ Alive("P1") = {lastOp.ids[1]}
  /\ Stored("P1") = <<1, 0, 0>>

(* C3: a recalculateProject(P) that directly follows a successful          *)
(* recalculateProject(P) returns the same four numbers and leaves P's      *)
(* three counters as the first call left them.                             *)
C3_RecalcIdempotent ==
  lastOp.again =>
     /\ lastOp.ret = lastOp.prevRet
     /\ Stored(lastOp.target) = lastOp.prior[1]

C3_Witness ==
  /\ lastOp.again /\ lastOp.target = "P1"
  /\ lastOp.ret.breakdownsCount = 2 /\ lastOp.ret.completed = 1
  /\ lastOp.ret.onTrack = 1

(* C4: when a successful delete or bulk delete removes the last child of a *)
(* parent, that parent's three counters are 0 afterwards; a recalc of a    *)
(* parent without children patches the three zeros and the audit field.    *)
C4_LastChildResets ==
  /\ (lastOp.op \in {"delete", "bulkDelete"} /\ lastOp.outcome = "ok") =>
        \A P \in ExistingProjects :
           (P \in Elems(lastOp.oldFks) /\ Alive(P) = {}) =>
              /\ Stored(P) = <<0, 0, 0>>
              /\ P \in Elems(Recalculated(lastOp.events))
              /\ projects[P].updatedBy \in Actors
  /\ (lastOp.op = "recalc" /\ lastOp.outcome = "ok" /\ Alive(lastOp.target) = {}) =>
        /\ Stored(lastOp.target) = <<0, 0, 0>>
        /\ projects[lastOp.target].updatedBy \in Actors

C4_Witness ==
  /\ lastOp.op = "bulkDelete" /\ lastOp.outcome = "ok"
  /\ lastOp.oldFks = <<"P1", "P1">>
  /\ lastOp.prior = <<<<1, 0, 0>>>>
  /\ Alive("P1") = {}
  /\ Stored("P1") = <<0, 0, 0>>

(* C10: a successful bulk operation recalculates each affected parent (the *)
(* parents its items had before or were given) exactly once, however many  *)
(* items name it, and reports the number of recalculations issued.         *)
C10_BulkRecalcOncePerParent ==
  (lastOp.op \in BulkOps /\ lastOp.outcome = "ok") =>
     LET calls == Recalculated(lastOp.events)
     IN /\ NoDup(calls)
        /\ Elems(calls) = (Elems(lastOp.oldFks) \cup Elems(lastOp.newFks))
                             \ {NoProject}
        /\ lastOp.affected = Len(calls)

C10_Witness ==
  /\ lastOp.op = "bulkUpdate" /\ lastOp.outcome = "ok"
  /\ Len(lastOp.ids) = MaxBatch
  /\ \A i \in 1..Len(lastOp.ids) : lastOp.oldFks[i] = "P1" /\ lastOp.newFks[i] = "P1"
  /\ NoDup(lastOp.ids)
  /\ Recalculated(lastOp.events) = <<"P1">>

(* ===================== properties: aggregations ====================== *)
SameKey(r1, r2) ==
  /\ r1.entityType = r2.entityType
  /\ r1.aggregationType = r2.aggregationType
  /\ r1.groupingKeys = r2.groupingKeys

(* C5: the aggregations table never holds two records with the same        *)
(* entityType, aggregationType and grouping keys, and a call that repeats  *)
(* the grouping keys of the call before it returns the same id as an       *)
(* update and inserts nothing.                                             *)
C5_OneRecordPerKey ==
  /\ \A i, j \in 1..Len(aggregations) :
        SameKey(aggregations[i], aggregations[j]) => i = j
  /\ (lastAgg.outcome \in {"created", "updated"} /\ lastAgg.prevId # 0
        /\ lastAgg.keys = lastAgg.prevKeys) =>
        /\ lastAgg.outcome = "updated"
        /\ lastAgg.aggregationId = lastAgg.prevId
        /\ Len(aggregations) = lastAgg.sizeBefore

C5_Witness ==
  /\ lastAgg.outcome = "updated" /\ lastAgg.prevId = 2 /\ lastAgg.aggregationId = 2
  /\ lastAgg.keys = lastAgg.prevKeys
  /\ Len(aggregations) = 2
  /\ aggregations[2].rowCount = 2 /\ aggregations[1].rowCount = 1

(* C6: a call that updates an existing record leaves its createdBy,        *)
(* createdAt, entityType, aggregationType, groupingKeys (and hierarchy     *)
(* level) as they were and writes values, label, rowCount, updatedAt and   *)
(* updatedBy; every other record is untouched.                             *)
C6_UpdateKeepsCreation ==
  [][lastAgg'.outcome = "updated" =>
       LET id == lastAgg'.aggregationId
           old == aggregations[id]
           new == aggregations'[id]
       IN /\ Len(aggregations') = Len(aggregations)
          /\ \A i \in 1..Len(aggregations) : i # id => aggregations'[i] = aggregations[i]
          /\ new.createdBy = old.createdBy
          /\ new.createdAt = old.createdAt
          /\ new.entityType = old.entityType
          /\ new.aggregationType = old.aggregationType
          /\ new.groupingKeys = old.groupingKeys
          /\ new.hierarchyLevel = old.hierarchyLevel
          /\ new.updatedAt = lastAgg'.now
          /\ new.updatedBy = lastAgg'.userId
          /\ new.rowCount = lastAgg'.rowCount]_vars

C6_Witness ==
  /\ lastAgg.outcome = "updated"
  /\ LET r == aggregations[lastAgg.aggregationId]
     IN /\ r.createdBy = "U1" /\ r.updatedBy = "U2"
        /\ r.createdAt = 1 /\ r.updatedAt = 2
        /\ r.rowCount = 2

(* ===================== properties: activity loggers ================== *)
Logged == lastLog.phase = "done"
Excluded(logger) ==
  IF logger = "particular" THEN ParticularSystemFields ELSE SystemFields
Serialized(obj, key) ==
  IF key \in DOMAIN obj THEN Stringify(obj[key]) ELSE <<"undefined">>

C8_ChangedFieldsIsDiff ==
  (Logged /\ lastLog.fault = "ok") =>
    LET config == lastLog.config
        changedFields == lastLog.result.changedFields
    IN /\ NoDup(changedFields)
       /\ Elems(changedFields) =
            IF config.action = "updated" /\ config.hasPrevious /\ config.hasNew
            THEN {k \in (DOMAIN config.previousValues \cup DOMAIN config.newValues)
                          \ Excluded(lastLog.logger) :
                     Serialized(config.previousValues, k)
                       # Serialized(config.newValues, k)}
            ELSE {}
       /\ lastLog.logger = "project" =>
            lastLog.result.written[1].changedFields = changedFields
       /\ (/\ config.action = "updated"
           /\ config.hasPrevious /\ config.hasNew
           /\ FieldOf(config.previousValues, "status") = Text("ongoing")
           /\ FieldOf(config.newValues, "status") = Text("completed")) =>
            "status" \in Elems(changedFields)

C8_Witness ==
  /\ Logged /\ lastLog.fault = "ok" /\ lastLog.logger = "project"
  /\ lastLog.config.action = "updated"
  /\ lastLog.config.previousValues = [k \in {"status"} |-> Text("ongoing")]
  /\ lastLog.config.newValues =
        [k \in {"status", "updatedAt"} |->
            IF k = "status" THEN Text("completed") ELSE Text("ongoing")]
  /\ lastLog.result.changedFields = <<"status">>

(* C9: the activity logProjectActivity stores carries each flag exactly    *)
(* when its field is in changedFields: budgetChanged for                   *)
(* totalBudgetAllocated, together with oldBudget and newBudget equal to    *)
(* the previous and the new value, scheduleChanged for                     *)
(* targetDateCompletion, managerChanged for projectManagerId,              *)
(* statusChanged for status, categoryChanged for categoryId; with no flag  *)
(* the stored changeSummary is absent.                                     *)
FlagOf ==
  [budgetChanged |-> "totalBudgetAllocated",
   scheduleChanged |-> "targetDateCompletion",
   managerChanged |-> "projectManagerId",
   statusChanged |-> "status",
   categoryChanged |-> "categoryId"]

C9_FlagsFollowChangedFields ==
  (Logged /\ lastLog.logger = "project" /\ lastLog.fault = "ok") =>
    LET doc == lastLog.result.written[1]
        summary == doc.changeSummary
        changed == Elems(doc.changedFields)
    IN /\ \A flag \in DOMAIN FlagOf :
            /\ flag \in DOMAIN summary <=> FlagOf[flag] \in changed
            /\ flag \in DOMAIN summary => summary[flag] = True
       /\ "budgetChanged" \in DOMAIN summary =>
            /\ summary["oldBudget"] =
                 FieldOf(lastLog.config.previousValues, "totalBudgetAllocated")
            /\ summary["newBudget"] =
                 FieldOf(lastLog.config.newValues, "totalBudgetAllocated")
       /\ "budgetChanged" \notin DOMAIN summary =>
            {"oldBudget", "newBudget"} \cap DOMAIN summary = {}
       /\ doc.hasChangeSummary <=> (\E flag \in DOMAIN FlagOf : flag \in DOMAIN summary)

C9_Witness ==
  /\ Logged /\ lastLog.logger = "project" /\ lastLog.fault = "ok"
  /\ LET doc == lastLog.result.written[1]
     IN /\ doc.hasChangeSummary
        /\ DOMAIN doc.changeSummary =
             {"budgetChanged", "oldBudget", "newBudget", "managerChanged"}
        /\ doc.changeSummary["oldBudget"] = Undefined
        /\ doc.changeSummary["newBudget"] = Text("completed")

(* ================ properties: order, failures, access ================ *)
ChildOps == SingleOps \cup BulkOps
Ran == lastOp.op \in ChildOps /\ lastOp.outcome \in {"ok", "StoreError"}
At(kind) == {i \in 1..Len(lastOp.events) : lastOp.events[i].e = kind}

(* C11: in every single and bulk child mutation that got past its checks   *)
(* the writes come first, one per item written, then the one logging       *)
(* call, then the recalculateProjectMetrics calls: no recalculation starts *)
(* before the logging call returned and no write follows it.               *)
C11_WriteLogRecalc ==
  Ran =>
    /\ Cardinality(At("log")) = 1
    /\ Cardinality(At("write")) = Len(lastOp.ids)
    /\ lastOp.op \in SingleOps => Len(lastOp.ids) = 1
    /\ \A w \in At("write"), l \in At("log") : w < l
    /\ \A l \in At("log"), r \in At("recalc") : l < r
    /\ At("write") \cup At("log") \cup At("recalc") = 1..Len(lastOp.events)

C11_Witness ==
  /\ lastOp.op = "bulkDelete" /\ lastOp.outcome = "ok"
  /\ Len(lastOp.ids) = 2
  /\ lastOp.events = <<Ev("write", "-"), Ev("write", "-"), Ev("log", "-"),
                       Ev("recalc", "P1"), Ev("recalc", "P2")>>

Untouched ==
  /\ breakdowns' = breakdowns
  /\ projects' = projects
  /\ aggregations' = aggregations
  /\ lastOp'.events = <<>>
  /\ lastOp'.logged = 0
  /\ lastOp'.agg = NoAgg

Entrypoints == ChildOps \cup {"recalc", "recalcAll", "subtotal", "recalcSubtotals"}

(* C12: each of the ten mutation entrypoints, called without a signed-in   *)
(* user, fails with NotAuthenticated before any store call; children,      *)
(* parents and aggregations are as before and nothing is logged. No        *)
(* signed-in call fails that way.                                          *)
C12_AnonymousRefused ==
  [][/\ (lastOp'.op \in Entrypoints /\ lastOp'.call.userId = NoUser) =>
          (lastOp'.outcome = "NotAuthenticated" /\ Untouched)
     /\ lastOp'.outcome = "NotAuthenticated" => lastOp'.call.userId = NoUser]_vars

C12_Witness ==
  /\ lastOp.op = "delete" /\ lastOp.outcome = "NotAuthenticated"
  /\ lastOp.call = Call(NoUser, 1, Absent)
  /\ Len(breakdowns) = 2
  /\ breakdowns[1].alive /\ breakdowns[1].projectId = "P1"
  /\ Stored("P1") = <<1, 0, 0>>

(* C13: a signed-in create or update that supplies a projectId with no     *)
(* parent document fails with NotFound before any write: no child is       *)
(* inserted or patched, nothing is logged, no parent is recalculated.      *)
C13_DanglingParentRefused ==
  [][(/\ lastOp'.op \in {"create", "update"}
      /\ lastOp'.call.userId # NoUser
      /\ lastOp'.call.projectId # Absent
      /\ lastOp'.call.projectId \notin DOMAIN projects) =>
        (lastOp'.outcome = "NotFound" /\ Untouched)]_vars

C13_Witness ==
  /\ lastOp.op = "update" /\ lastOp.outcome = "NotFound"
  /\ lastOp.call = Call("U2", 1, "P3")
  /\ Found(breakdowns, 1) /\ breakdowns[1].projectId = "P1"
  /\ Stored("P1") = <<0, 1, 0>>

(* C14: a signed-in update or delete of a breakdownId that is not in the   *)
(* store fails with NotFound and leaves the store as it was: no patch or   *)
(* delete, nothing logged, no recalculation.                               *)
C14_MissingChildRefused ==
  [][(/\ lastOp'.op \in {"update", "delete"}
      /\ lastOp'.call.userId # NoUser
      /\ ~Found(breakdowns, lastOp'.call.breakdownId)) =>
        (lastOp'.outcome = "NotFound" /\ Untouched)]_vars

C14_Witness ==
  /\ lastOp.op = "delete" /\ lastOp.outcome = "NotFound"
  /\ lastOp.call = Call("U2", 1, Absent)
  /\ Len(breakdowns) = 2
  /\ breakdowns[1] = Deleted
  /\ breakdowns[2].alive /\ breakdowns[2].projectId = "P1"
  /\ Stored("P1") = <<0, 0, 1>>

(* C15: a successful single update recalculates exactly the old parent,    *)
(* if there is one and it differs from the new one, and the new parent,    *)
(* if there is one: at most two, none twice. After a move from one parent  *)
(* to another both were recalculated, the old one first; the old one no    *)
(* longer counts the child and the new one does.                           *)
C15_UpdateAffectedParents ==
  (lastOp.op = "update" /\ lastOp.outcome = "ok") =>
    LET id == lastOp.ids[1]
        old == lastOp.oldFks[1]
        new == lastOp.newFks[1]
        rs == Recalculated(lastOp.events)
    IN /\ Elems(rs) = ({old} \ {NoProject, new}) \cup ({new} \ {NoProject})
       /\ NoDup(rs)
       /\ Len(rs) <= 2
       /\ lastOp.affected = Len(rs)
       /\ (old # NoProject /\ new # NoProject /\ old # new) =>
            /\ rs = <<old, new>>
            /\ id \notin Alive(old) /\ id \in Alive(new)
            /\ Consistent(old) /\ Consistent(new)

C15_Witness ==
  /\ lastOp.op = "update" /\ lastOp.outcome = "ok"
  /\ lastOp.oldFks = <<"P1">> /\ lastOp.newFks = <<"P2">>
  /\ Recalculated(lastOp.events) = <<"P1", "P2">>
  /\ lastOp.prior = <<<<1, 0, 0>>, <<0, 0, 0>>>>
  /\ Stored("P1") = <<0, 0, 0>> /\ Stored("P2") = <<1, 0, 0>>

(* C16: recalculateMultipleProjects treats each id on its own: when the    *)
(* recalculation of one id fails, every other id of the list that has a    *)
(* parent document is still recalculated and its result is returned.       *)
C16_EachIdOnItsOwn ==
  lastOp.op = "recalcMany" =>
    \A i \in 1..Len(lastOp.projectIds) :
      LET projectId == lastOp.projectIds[i]
      IN projectId \in DOMAIN projects =>
           /\ projectId \in Elems(Recalculated(lastOp.events))
           /\ Consistent(projectId)
           /\ \E j \in 1..Len(lastOp.results) :
                 lastOp.results[j].projectId = projectId

(* a list whose first id has no parent: the second id is never reached *)
C16_Witness ==
  /\ lastOp.op = "recalcMany" /\ lastOp.outcome = "StoreError"
  /\ lastOp.projectIds = <<"P3", "P1">>
  /\ Recalculated(lastOp.events) = <<"P3">>
  /\ lastOp.results = <<>>
  /\ Cardinality(Alive("P1")) = 1 /\ ~Consistent("P1")

(* C18: recalculateAllProjects serves the role super_admin only: a         *)
(* signed-in caller without a user document, or with another role, is      *)
(* refused and no parent is patched; a super_admin is not refused.         *)
C18_AdminOnly ==
  [][lastOp'.op = "recalcAll" /\ lastOp'.call.userId # NoUser =>
       LET u == lastOp'.call.userId
       IN IF HasUserRecord(u) /\ Role(u) = "super_admin"
          THEN lastOp'.outcome # "NotAuthorized"
          ELSE lastOp'.outcome = "NotAuthorized" /\ Untouched]_vars

C18_Witness ==
  /\ lastOp.op = "recalcAll" /\ lastOp.outcome = "NotAuthorized"
  /\ lastOp.call.userId = Ghost
  /\ Cardinality(Alive("P1")) = 1 /\ Cardinality(Alive("P2")) = 1

(* C19: calculateAggregation with an empty list fails with EmptyInput      *)
(* without reading or writing the aggregations table, and                  *)
(* calculateProjectSubtotal for a pair without breakdowns fails as well    *)
(* and writes nothing.                                                     *)
C19_EmptyInputRefused ==
  [][/\ (lastAgg' # lastAgg /\ lastAgg'.rowCount = 0) =>
          /\ lastAgg'.outcome = "EmptyInput"
          /\ lastAgg'.reads = 0 /\ lastAgg'.writes = 0
          /\ aggregations' = aggregations
     /\ (lastAgg' # lastAgg /\ lastAgg'.rowCount > 0) =>
          lastAgg'.outcome \in {"created", "updated"}
     /\ (/\ lastOp' # lastOp
         /\ lastOp'.op = "subtotal" /\ lastOp'.call.userId # NoUser
         /\ AllBreakdowns(breakdowns) = <<>>) =>
          /\ lastOp'.outcome = "NoBreakdowns"
          /\ lastOp'.agg = NoAgg
          /\ aggregations' = aggregations]_vars

C19_Witness ==
  /\ lastAgg.outcome = "EmptyInput" /\ lastAgg.rowCount = 0
  /\ lastOp.op = "subtotal" /\ lastOp.outcome = "NoBreakdowns"
  /\ Len(aggregations) = 2

(* ================== properties: the aggregate functions ================ *)
(* the reference results, stated over the positions of the list *)
NumericAt(items, field) ==
  {i \in 1..Len(items) : field \in DOMAIN items[i] /\ items[i][field].t = "number"}
PresentAt(items, field) ==
  {i \in 1..Len(items) : /\ field \in DOMAIN items[i]
                         /\ items[i][field].t \notin {"null", "undefined"}}
RECURSIVE SumOver(_, _, _)
SumOver(items, field, I) ==
  IF I = {} THEN 0
  ELSE LET i == CHOOSE x \in I : TRUE
       IN items[i][field].v + SumOver(items, field, I \ {i})

IsReference(items, fc, slot) ==
  LET field == fc.sourceField
      f == fc.aggregateFunction
      I == NumericAt(items, field)
      total == SumOver(items, field, I)
      n == Cardinality(I)
      undefined == slot.num = 0 /\ slot.den = 0
  IN CASE f = "sum" -> slot.den = 1 /\ slot.num = total
       [] f = "avg" -> IF n = 0 THEN undefined
                       ELSE slot.den > 0 /\ slot.num * n = total * slot.den
       [] f = "min" -> IF n = 0 THEN undefined
                       ELSE /\ slot.den = 1
                            /\ \E i \in I : items[i][field].v = slot.num
                            /\ \A i \in I : slot.num <= items[i][field].v
       [] f = "max" -> IF n = 0 THEN undefined
                       ELSE /\ slot.den = 1
                            /\ \E i \in I : items[i][field].v = slot.num
                            /\ \A i \in I : slot.num >= items[i][field].v
       [] f = "count" -> slot.den = 1
                         /\ slot.num = Cardinality(PresentAt(items, field))

(* C20: after calculateAggregation over a non-empty list, the slot named   *)
(* by each aggregate field's targetValueKey holds the reference result of  *)
(* its function (sum with non-numbers as 0, avg and min/max over the       *)
(* numeric values only and undefined without any, count of the values that *)
(* are neither null nor missing), and rowCount is the number of items.     *)
C20_SlotsHoldReference ==
  lastAgg.outcome \in {"created", "updated"} =>
    LET rec == aggregations[lastAgg.aggregationId]
        fields == lastAgg.config.aggregateFields
    IN /\ rec.rowCount = Len(lastAgg.items)
       /\ \A k \in 1..Len(fields) :
            /\ fields[k].targetValueKey \in DOMAIN rec.aggregatedValues
            /\ IsReference(lastAgg.items, fields[k],
                           rec.aggregatedValues[fields[k].targetValueKey])

(* allocated 100 and 200: sum 300, two rows, mean 150 *)
C20_Witness ==
  /\ lastAgg.outcome = "created"
  /\ Len(lastAgg.items) = 2
  /\ FieldOf(lastAgg.items[1], "allocatedBudget") = Number(100)
  /\ FieldOf(lastAgg.items[2], "allocatedBudget") = Number(200)
  /\ lastAgg.config.aggregateFields[1].aggregateFunction = "sum"
  /\ lastAgg.config.aggregateFields[2].aggregateFunction = "avg"
  /\ aggregations[1].aggregatedValues["value1"] = [num |-> 300, den |-> 1]
  /\ aggregations[1].aggregatedValues["value2"] = [num |-> 150, den |-> 1]
  /\ aggregations[1].rowCount = 2

(* C21: for each aggregate field the named map holds the key               *)
(* "{function}_{sourceField}" exactly when the field's result is defined,  *)
(* and then with the value of the field's positional slot; avg, min and    *)
(* max over a list without a number in the source field are undefined and  *)
(* left out of the named map.                                              *)
C21_NamedMapFollowsSlots ==
  lastAgg.outcome \in {"created", "updated"} =>
    LET rec == aggregations[lastAgg.aggregationId]
        fields == lastAgg.config.aggregateFields
    IN \A k \in 1..Len(fields) :
         LET name == <<fields[k].aggregateFunction, "_", fields[k].sourceField>>
             slot == rec.aggregatedValues[fields[k].targetValueKey]
             defined == slot.den # 0
         IN /\ name \in DOMAIN rec.namedAggregations <=> defined
            /\ defined => rec.namedAggregations[name] = slot
            /\ (/\ fields[k].aggregateFunction \in {"avg", "min", "max"}
                /\ NumericAt(lastAgg.items, fields[k].sourceField) = {})
                 => ~defined

(* a string and a null: count 1 is named, the mean is not *)
C21_Witness ==
  /\ lastAgg.outcome = "created"
  /\ Len(lastAgg.items) = 2
  /\ FieldOf(lastAgg.items[1], "allocatedBudget") = Text("n/a")
  /\ FieldOf(lastAgg.items[2], "allocatedBudget") = Null
  /\ lastAgg.config.aggregateFields[1].aggregateFunction = "count"
  /\ lastAgg.config.aggregateFields[2].aggregateFunction = "avg"
  /\ DOMAIN aggregations[1].namedAggregations = {<<"count", "_", "allocatedBudget">>}
  /\ aggregations[1].namedAggregations[<<"count", "_", "allocatedBudget">>]
       = [num |-> 1, den |-> 1]

(* C22: a successful calculateAggregation call writes the aggregations     *)
(* table exactly once, either one insert at the end or one patch of the    *)
(* record it returns, every other record staying as it was; a failing      *)
(* call writes nothing.                                                    *)
C22_OneWritePerCall ==
  [][lastAgg' # lastAgg =>
       LET n == Len(aggregations)
           id == lastAgg'.aggregationId
       IN CASE lastAgg'.outcome = "created" ->
                 /\ lastAgg'.writes = 1
                 /\ Len(aggregations') = n + 1 /\ id = n + 1
                 /\ \A i \in 1..n : aggregations'[i] = aggregations[i]
            [] lastAgg'.outcome = "updated" ->
                 /\ lastAgg'.writes = 1
                 /\ Len(aggregations') = n /\ id \in 1..n
                 /\ \A i \in 1..n : i # id => aggregations'[i] = aggregations[i]
            [] OTHER ->
                 /\ lastAgg'.outcome = "EmptyInput"
                 /\ lastAgg'.writes = 0
                 /\ aggregations' = aggregations]_vars

(* the second of two records was patched by another caller *)
C22_Witness ==
  /\ lastAgg.outcome = "updated" /\ lastAgg.writes = 1
  /\ lastAgg.aggregationId = 2 /\ lastAgg.sizeBefore = 2
  /\ Len(aggregations) = 2
  /\ aggregations[2].createdBy = "U1" /\ aggregations[2].updatedBy = "U2"
  /\ aggregations[1].updatedBy = NoUser

(* C23: the record that calculateAggregation selects and patches has the   *)
(* entity type, the aggregation type and the whole grouping-key tuple of   *)
(* the current computation; a record stored under a longer tuple is never  *)
(* selected by a computation that groups by fewer fields.                  *)
C23_LookupByWholeTuple ==
  lastAgg.outcome = "updated" =>
    LET rec == aggregations[lastAgg.aggregationId]
    IN /\ rec.entityType = getGovtProjectSubtotalConfig.entityType
       /\ rec.aggregationType = getGovtProjectSubtotalConfig.aggregationType
       /\ rec.groupingKeys = lastAgg.keys

(* the record kept under (X, Y) was patched by a computation over X alone *)
C23_Witness ==
  /\ lastAgg.outcome = "updated"
  /\ lastAgg.keys = <<Text("X")>>
  /\ aggregations[lastAgg.aggregationId].groupingKeys = <<Text("X"), Text("Y")>>
  /\ Len(aggregations) = 1

(* C25: each call of an activity logger, made for a user whose record      *)
(* exists and met by no failing store call, writes exactly one activity    *)
(* record, which carries the actor's name, email and role as the user      *)
(* record holds them, the action, the snapshots and the diff.              *)
C25_OneRecordPerCall ==
  (lastLog.phase = "done" /\ lastLog.fault = "ok") =>
    /\ Len(lastLog.result.written) = 1
    /\ LET doc == lastLog.result.written[1]
           user == UserRecord(lastLog.userId)
       IN /\ doc.performedBy = lastLog.userId
          /\ doc.performedByName = (IF user.name = "" THEN "Unknown" ELSE user.name)
          /\ doc.performedByEmail = user.email
          /\ doc.performedByRole = (IF user.role = "" THEN "user" ELSE user.role)
          /\ doc.action = lastLog.config.action
          /\ doc.hasPreviousValues = lastLog.config.hasPrevious
          /\ doc.hasNewValues = lastLog.config.hasNew
          /\ doc.changedFields = lastLog.result.changedFields

(* the category logger ran to its end and only printed *)
C25_Witness ==
  /\ lastLog.phase = "done" /\ lastLog.logger = "category"
  /\ lastLog.fault = "ok" /\ lastLog.userId = "U1"
  /\ lastLog.config.action = "updated"
  /\ lastLog.result.changedFields = <<"isActive">>
  /\ lastLog.result.written = <<>>
  /\ Len(lastLog.result.printed) = 1

C28_OnePatchWithAudit ==
  (lastOp.op = "recalcOnce" /\ lastOp.ok) =>
    /\ lastOp.patches = 1
    /\ projects["P1"].updatedBy = "U2"
    /\ projects["P1"].updatedAt = PatchTime
    /\ \A x \in DOMAIN projects \ {"P1"} : projects[x] = lastOp.before[x]

(* the counters were right before the call; the audit fields moved on *)
C28_Witness ==
  /\ lastOp.op = "recalcOnce" /\ lastOp.ok
  /\ Len(breakdowns) = 2
  /\ Counters(lastOp.before)["P1"] = <<1, 1, 0>>
  /\ Counters(projects)["P1"] = <<1, 1, 0>>
  /\ lastOp.before["P1"].updatedBy = "U1" /\ lastOp.before["P1"].updatedAt = 0
  /\ projects["P1"].updatedBy = "U2" /\ projects["P1"].updatedAt = 1

(* C29: a child counts in exactly one bucket when its status is exactly    *)
(* "completed", "delayed" or "ongoing", and in none when the status is     *)
(* missing or anything else, a legacy "Completed" or "On-Going" included;  *)
(* breakdownsCount counts every child of the parent. So the three buckets  *)
(* add up to at most breakdownsCount, and to breakdownsCount exactly when  *)
(* every child has a recognised status.                                    *)
C29_BucketsByExactStatus ==
  (lastOp.op = "recalcOnce" /\ lastOp.ok) =>
    LET kids == {i \in 1..Len(breakdowns) : breakdowns[i].projectId = "P1"}
        with(st) == Cardinality({i \in kids : breakdowns[i].status = st})
        known == {i \in kids : breakdowns[i].status
                                  \in {"completed", "delayed", "ongoing"}}
        ret == lastOp.ret
        buckets == ret.completed + ret.delayed + ret.onTrack
    IN /\ ret.completed = with("completed")
       /\ ret.delayed = with("delayed")
       /\ ret.onTrack = with("ongoing")
       /\ ret.breakdownsCount = Cardinality(kids)
       /\ buckets = Cardinality(known)
       /\ buckets <= ret.breakdownsCount
       /\ buckets = ret.breakdownsCount <=> known = kids
       /\ Counters(projects)["P1"] = <<ret.completed, ret.delayed, ret.onTrack>>

(* three children, one of them with a legacy status, one without status *)
C29_Witness ==
  /\ lastOp.op = "recalcOnce" /\ lastOp.ok
  /\ breakdowns = <<Child("P1", "Completed"), Child("P1", "ongoing"),
                    Child("P1", NoStatus)>>
  /\ lastOp.ret = [breakdownsCount |-> 3, completed |-> 0, delayed |-> 0,
                   onTrack |-> 1]

(* ================ properties: bulk calls with missing ids ============== *)
AskedBulk == lastOp.op \in {"bulkUpdate", "bulkDelete"}
MetIds == {id \in Elems(lastOp.requested) : Found(lastOp.before, id)}

AsCounts(t) == [completed |-> t[1], delayed |-> t[2], onTrack |-> t[3]]
AllReturned == \A q \in RaceProcs \ {"F"} : lastOp.pc[q] = "done"

(* C26: however the store calls of the child mutations and recalculations  *)
(* of P interleave, one more recalculation of P that runs after all of     *)
(* them have returned leaves P's counters equal to the true counts of its  *)
(* children; and every recalculation whose query saw the last child write  *)
(* holds, and then writes, those same true counts.                         *)
C26_FinalRecalcConverges ==
  /\ lastOp.pc["F"] = "done" => Consistent("P1")
  /\ \A q \in RaceProcs :
       (lastOp.pc[q] = "write" /\ lastOp.stamp[q] = lastOp.childWrites)
          => lastOp.local[q] = AsCounts(TrueCounts("P1"))
  /\ \A q \in RaceProcs :
       (lastOp.lastPatch = q /\ lastOp.stamp[q] = lastOp.childWrites)
          => Consistent("P1")

(* the counters were off when all had returned, and the final run set them right *)
C26_Witness ==
  /\ lastOp.pc["F"] = "done" /\ lastOp.lastPatch = "F"
  /\ \E q \in Mutators : lastOp.stamp[q] < lastOp.childWrites
                         /\ lastOp.local[q] # AsCounts(TrueCounts("P1"))
  /\ TrueCounts("P1") = <<1, 1, 0>>
  /\ Consistent("P1")

(* C27: with the store calls of two mutations on different children of P   *)
(* interleaved, P's counters are at every moment those of the parent patch *)
(* that ran last, whatever snapshot it was computed from; so the counters  *)
(* can be wrong after both mutations have returned.                        *)
C27_LastPatchWins ==
  [][\A q \in RaceProcs :
       (lastOp.pc[q] = "write" /\ lastOp'.pc[q] = "done") =>
          /\ AsCounts(Counters(projects')["P1"]) = lastOp.local[q]
          /\ lastOp'.lastPatch = q]_vars

(* both mutations have returned, no recalculation is left to run before    *)
(* the final one, and P counts a child as ongoing that is delayed          *)
C27_Witness ==
  /\ AllReturned /\ lastOp.pc["F"] = "wait"
  /\ lastOp.lastPatch = "M1"
  /\ lastOp.stamp["M1"] = 1 /\ lastOp.childWrites = 2
  /\ TrueCounts("P1") = <<1, 1, 0>>
  /\ Stored("P1") = <<1, 0, 1>>

(* ================== properties: bulk foreign keys ====================== *)
Dangling(i) ==
  /\ breakdowns[i].alive
  /\ breakdowns[i].projectId \notin DOMAIN projects \cup {NoProject, Absent}

(* C31: bulk create and bulk update write no item whose foreign key names  *)
(* a parent that is not in the store: every child a bulk operation has     *)
(* inserted or patched references an existing parent or none.              *)
C31_BulkWritesNeedParent ==
  lastOp.op \in {"bulkCreate", "bulkUpdate"} =>
    \A i \in 1..Len(lastOp.ids) : ~Dangling(lastOp.ids[i])

(* a bulk update has patched child 1 to the parent "P3", which is not in   *)
(* the store, and only the recalculation that followed failed              *)
C31_Witness ==
  /\ lastOp.op = "bulkUpdate" /\ lastOp.outcome = "StoreError"
  /\ lastOp.ids = <<1>> /\ lastOp.oldFks = <<"P1">>
  /\ breakdowns[1].projectId = "P3" /\ "P3" \notin DOMAIN projects
  /\ lastOp.events[1].e = "write"

(* ================== properties: who writes the counters ================ *)
(* C32: a parent's three counters change only in a step that ran           *)
(* recalculateProjectMetrics for that parent, and the new values are the   *)
(* counts re-derived from its children; no handler sets them directly.     *)
C32_CountersOnlyByRecalc ==
  [][\A P \in DOMAIN projects :
       Counters(projects')[P] # Counters(projects)[P] =>
          /\ P \in Elems(Recalculated(lastOp'.events))
          /\ Consistent(P)']_vars

(* a delete that changed the counters of "P1" through its recalculation *)
C32_Witness ==
  /\ lastOp.op = "delete" /\ lastOp.outcome = "ok"
  /\ Recalculated(lastOp.events) = <<"P1">>
  /\ lastOp.prior = <<<<1, 0, 1>>>>
  /\ Stored("P1") = <<0, 0, 1>>

(* ================== properties: order of a bulk run ==================== *)
(* the children a bulk delete meets, in the order of the list: an id is    *)
(* met at its first place in the list, if the store held it before         *)
RECURSIVE MetInOrder(_, _, _)
MetInOrder(requested, before, seen) ==
  IF requested = <<>> THEN <<>>
  ELSE LET id == Head(requested)
           rest == MetInOrder(Tail(requested), before, seen \cup {id})
       IN IF Found(before, id) /\ id \notin seen THEN <<id>> \o rest ELSE rest

(* the parents named by the items at places ps, by first appearance *)
RECURSIVE FirstParents(_)
FirstParents(fks) ==
  IF fks = <<>> THEN <<>>
  ELSE LET rest == FirstParents(SubSeq(fks, 1, Len(fks) - 1))
           fk == fks[Len(fks)]
       IN IF fk \in {Absent, NoProject} \/ fk \in Elems(rest) THEN rest
          ELSE Append(rest, fk)

(* writes, then one log call, then the recalculations *)
WritesLogRecalcs(events, n, parents) ==
  /\ Len(events) = n + 1 + Len(parents)
  /\ \A i \in 1..n : events[i].e = "write"
  /\ events[n + 1].e = "log"
  /\ \A i \in 1..Len(parents) : events[n + 1 + i] = Ev("recalc", parents[i])

AsChild(item) ==
  [alive |-> TRUE, projectId |-> item.projectId, status |-> item.status,
   projectName |-> item.projectName,
   implementingOffice |-> item.implementingOffice]

FirstKeys == <<FieldOf(lastAgg.items[1], "projectName"),
               FieldOf(lastAgg.items[1], "implementingOffice")>>
Heterogeneous ==
  \E i \in 1..Len(lastAgg.items) :
     FieldOf(lastAgg.items[i], "implementingOffice")
        # FieldOf(lastAgg.items[1], "implementingOffice")

(* C34: calculateAggregation does not partition its list: the grouping     *)
(* keys, the display label and the record that is looked up come from the  *)
(* first item alone, while every aggregated value and rowCount are taken   *)
(* over all items of the list, whatever group they belong to.              *)
C34_KeysFromFirstValuesFromAll ==
  lastAgg.outcome \in {"created", "updated"} =>
    LET rec == aggregations[lastAgg.aggregationId]
        fields == getGovtProjectSubtotalConfig.aggregateFields
        held == {i \in 1..Len(lastAgg.before) :
                    lastAgg.before[i].groupingKeys = FirstKeys}
    IN /\ rec.groupingKeys = FirstKeys
       /\ rec.displayLabel = <<FirstKeys[1], " - ", FirstKeys[2], " (Subtotal)">>
       /\ IF lastAgg.outcome = "updated"
          THEN lastAgg.aggregationId \in held /\ Len(aggregations) = Len(lastAgg.before)
          ELSE held = {} /\ lastAgg.aggregationId = Len(lastAgg.before) + 1
       /\ rec.rowCount = Len(lastAgg.items)
       /\ \A k \in 1..Len(fields) :
            IsReference(lastAgg.items, fields[k],
                        rec.aggregatedValues[fields[k].targetValueKey])
       /\ \A i \in 1..Len(lastAgg.before) :
            i # lastAgg.aggregationId => aggregations[i] = lastAgg.before[i]

(* a list of office Y then office Z: the record of Y now counts both rows  *)
(* and sums both budgets; the record of Z stays as it was                  *)
C34_Witness ==
  /\ lastAgg.outcome = "updated" /\ Heterogeneous
  /\ Len(lastAgg.items) = 2 /\ Len(aggregations) = 2
  /\ FirstKeys = <<Text("X"), Text("Y")>>
  /\ FieldOf(lastAgg.items[2], "implementingOffice") = Text("Z")
  /\ aggregations[lastAgg.aggregationId].rowCount = 2
  /\ aggregations[lastAgg.aggregationId].aggregatedValues["value1"]
        = [num |-> 3, den |-> 1]
  /\ \E i \in 1..2 : /\ aggregations[i].groupingKeys = <<Text("X"), Text("Z")>>
                     /\ aggregations[i] = lastAgg.before[i]

(* ================== properties: the system-wide run ==================== *)
(* C35: a recalculateAllProjects call that succeeds was made by a          *)
(* super_admin and has recalculated every parent of the store exactly      *)
(* once, childless parents too: afterwards each parent's counters are the  *)
(* counts of its children, and totalProjects is the number of parents.     *)
C35_EveryParentOnce ==
  (lastOp.op = "recalcAll" /\ lastOp.outcome = "ok") =>
    /\ Role(lastOp.caller) = "super_admin"
    /\ NoDup(Recalculated(lastOp.events))
    /\ Elems(Recalculated(lastOp.events)) = DOMAIN projects
    /\ \A P \in DOMAIN projects : Consistent(P)
    /\ lastOp.totalProjects = Cardinality(DOMAIN projects)

(* "P2" has no child and counted one as completed; "P1" has two children   *)
(* and counted none: the run sets both right                               *)
C35_Witness ==
  /\ lastOp.op = "recalcAll" /\ lastOp.outcome = "ok"
  /\ Alive("P2") = {} /\ Cardinality(Alive("P1")) = 2
  /\ Counters(lastOp.before)["P2"] = <<1, 0, 0>>
  /\ Counters(lastOp.before)["P1"] = <<0, 0, 0>>
  /\ Stored("P2") = <<0, 0, 0>> /\ Stored("P1") = <<1, 0, 1>>
  /\ lastOp.totalProjects = 2

(* ================== properties: bulk moves ============================= *)
(* the updates of the list that found their child *)
AppliedAt == {i \in 1..Len(lastOp.requested) :
                Found(lastOp.before, lastOp.requested[i].breakdownId)}
(* the parents those children had before, and the parents they were given *)
LosingParents ==
  {lastOp.before[lastOp.requested[i].breakdownId].projectId : i \in AppliedAt}
     \ {NoProject}
GainingParents == {lastOp.requested[i].projectId : i \in AppliedAt} \ {Absent}

(* C36: after a bulk update that succeeded, every parent that lost a child *)
(* and every parent that gained one has been recalculated, once, and holds *)
(* the counts of its present children; an update whose child is not in the *)
(* store adds no parent to the recalculated set.                           *)
C36_BothSidesRecalculated ==
  (lastOp.op = "bulkUpdate" /\ lastOp.outcome = "ok") =>
    /\ Elems(Recalculated(lastOp.events)) = LosingParents \cup GainingParents
    /\ NoDup(Recalculated(lastOp.events))
    /\ lastOp.affected = Cardinality(LosingParents \cup GainingParents)
    /\ \A P \in LosingParents \cup GainingParents : Consistent(P)
    /\ \A i \in AppliedAt :
         (lastOp.requested[i].projectId # Absent
            /\ \A j \in AppliedAt :
                 (j > i /\ lastOp.requested[j].breakdownId
                             = lastOp.requested[i].breakdownId)
                    => lastOp.requested[j].projectId = Absent)
           => breakdowns[lastOp.requested[i].breakdownId].projectId
                 = lastOp.requested[i].projectId

(* child 1 moves from "P1" to "P2"; the update of child 3, which is not in *)
(* the store, names no parent that counts: both parents are recalculated   *)
C36_Witness ==
  /\ lastOp.op = "bulkUpdate" /\ lastOp.outcome = "ok"
  /\ Len(lastOp.requested) = 2
  /\ lastOp.requested[1].breakdownId = 3 /\ lastOp.requested[1].projectId = "P1"
  /\ lastOp.requested[2].breakdownId = 1 /\ lastOp.requested[2].projectId = "P2"
  /\ Len(lastOp.before) = 1
  /\ lastOp.before[1].projectId = "P1" /\ lastOp.before[1].status = "completed"
  /\ Recalculated(lastOp.events) = <<"P1", "P2">>
  /\ Stored("P1") = <<0, 0, 0>> /\ Stored("P2") = <<1, 0, 0>>
  /\ lastOp.ids = <<1>>

(* ================== properties: what a recalculation leaves alone ====== *)
RollupFields == {"projectCompleted", "projectDelayed", "projectsOnTrack",
                 "updatedAt", "updatedBy"}

(* C37: recalculateProjectMetrics(P) changes nothing but P's three         *)
(* counters, updatedAt and updatedBy: the children, every other parent     *)
(* and every other field of P are after the call what they were before.    *)
C37_OnlyRollupFieldsChange ==
  [][lastOp'.op = "recalcOnce" =>
       /\ breakdowns' = breakdowns
       /\ DOMAIN projects' = DOMAIN projects
       /\ \A x \in DOMAIN projects \ {"P1"} : projects'[x] = projects[x]
       /\ DOMAIN projects'["P1"] = DOMAIN projects["P1"]
       /\ \A f \in DOMAIN projects["P1"] \ RollupFields :
            projects'["P1"][f] = projects["P1"][f]
       /\ <<aggregations', lastLog'>> = <<aggregations, lastLog>>]_vars

(* the counters of "P1" moved; its name, total and status did not, and     *)
(* "P2", whose child is not counted, was not touched                       *)
C37_Witness ==
  /\ lastOp.op = "recalcOnce" /\ lastOp.ok
  /\ Stored("P1") = <<1, 1, 0>> /\ Counters(lastOp.before)["P1"] = <<0, 0, 0>>
  /\ projects["P1"].projectName = "N"
  /\ projects["P1"].totalBudgetAllocated = 100
  /\ projects["P1"].status = "pending"
  /\ Cardinality(Alive("P2")) = 1
  /\ projects["P2"] = InitProject

(* ================== properties: the run over all subtotals ============= *)
PairsPresent == {<<breakdowns[i].projectName, breakdowns[i].implementingOffice>> :
                    i \in {j \in 1..Len(breakdowns) : breakdowns[j].alive}}
RowsOf(pair) == {i \in 1..Len(breakdowns) :
                   /\ breakdowns[i].alive
                   /\ breakdowns[i].projectName = pair[1]
                   /\ breakdowns[i].implementingOffice = pair[2]}
SubtotalsOf(pair) == {k \in 1..Len(aggregations) :
                        aggregations[k].groupingKeys = <<Text(pair[1]), Text(pair[2])>>}

(* C38: after recalculateAllSubtotals every pair (projectName,             *)
(* implementingOffice) found among the breakdowns has exactly one subtotal *)
(* record, whose rowCount is the number of breakdowns of that pair, and    *)
(* processed is the number of distinct pairs, also for names that hold the *)
(* text "|||".                                                             *)
C38_OneSubtotalPerPair ==
  (lastOp.op = "recalcSubtotals" /\ lastOp.outcome = "ok") =>
    /\ lastOp.agg.processed = Cardinality(PairsPresent)
    /\ \A pair \in PairsPresent :
         /\ Cardinality(SubtotalsOf(pair)) = 1
         /\ \A k \in SubtotalsOf(pair) :
              aggregations[k].rowCount = Cardinality(RowsOf(pair))

(* ("A|||B", "C") and ("A", "B|||C") give the same map key: the second     *)
(* pair is never processed and has no subtotal record                      *)
C38_Witness ==
  /\ lastOp.op = "recalcSubtotals" /\ lastOp.outcome = "ok"
  /\ PairsPresent = {<<"A|||B", "C">>, <<"A", "B|||C">>}
  /\ breakdowns[1].projectName = "A|||B"
  /\ lastOp.agg.processed = 1 /\ Len(aggregations) = 1
  /\ SubtotalsOf(<<"A", "B|||C">>) = {}

(* ================== properties: the export log ========================= *)
ExistingAsked == {i \in 1..Len(lastOp.breakdownIds) :
                    Found(breakdowns, lastOp.breakdownIds[i])}

(* C39: logBreakdownExport hands the logger, for each requested id that    *)
(* exists, that breakdown together with its own id, also when ids earlier  *)
(* in the list do not exist; the count returned is the number of existing  *)
(* requested breakdowns.                                                   *)
C39_EntryCarriesOwnId ==
  (lastOp.op = "export" /\ lastOp.outcome = "ok") =>
    /\ lastOp.count = Cardinality(ExistingAsked)
    /\ Len(lastOp.calls) = lastOp.count
    /\ \A k \in 1..Len(lastOp.calls) :
         lastOp.calls[k].breakdownId = lastOp.calls[k].breakdown._id

(* ids 2 and 1 are asked for and only 1 exists: breakdown 1 is logged      *)
(* under the id 2                                                          *)
C39_Witness ==
  /\ lastOp.op = "export" /\ lastOp.outcome = "ok"
  /\ Len(breakdowns) = 1 /\ breakdowns[1].alive
  /\ lastOp.breakdownIds = <<2, 1>>
  /\ lastOp.count = 1
  /\ lastOp.calls = <<[action |-> "exported", breakdownId |-> 2,
                       breakdown |-> [_id |-> 1]]>>

(* ================== properties: interleaved aggregations =============== *)
(* C40: also when two calculateAggregation calls for the same entity type, *)
(* aggregation type and grouping keys interleave at their store calls, the *)
(* table holds at most one record per key: the two calls never both find   *)
(* no record and both insert.                                              *)
C40_OneRecordPerKeyInterleaved ==
  /\ \A i, j \in 1..Len(aggregations) :
        i # j => ~SameKey(aggregations[i], aggregations[j])
  /\ ~ /\ \A q \in AggProcs : lastAgg.pc[q] = "done" /\ lastAgg.existing[q] = 0
       /\ GroupingKeys(lastAgg.items["A1"], getGovtProjectSubtotalConfig)
            = GroupingKeys(lastAgg.items["A2"], getGovtProjectSubtotalConfig)

(* both calls asked for office "Y", both queries ran before either insert: *)
(* two records with the keys ("X", "Y")                                    *)
C40_Witness ==
  /\ \A q \in AggProcs : lastAgg.pc[q] = "done" /\ lastAgg.existing[q] = 0
  /\ Len(aggregations) = 2
  /\ aggregations[1].groupingKeys = <<Text("X"), Text("Y")>>
  /\ aggregations[2].groupingKeys = <<Text("X"), Text("Y")>>
  /\ aggregations[1].rowCount = 1 /\ aggregations[2].rowCount = 2

====
